---------------------------- MODULE Spec2Model ----------------------------
(***************************************************************************)
(* Model of the invoice reconciliation matcher (server/routes.ts,          *)
(* matchInvoiceWithTasks) and of the OCR escalation controller             *)
(* (performOCR / enhancedExtractFromImage).                                *)
(*                                                                         *)
(* Text is a sequence of one-character strings, so that toLowerCase,       *)
(* includes, split and trim are computed character by character.           *)
(* Money is an integer number of thousandths of a currency unit, so that   *)
(* 0.01 is 10 and totals that differ by less than a cent can be told       *)
(* apart.  The amounts the model draws never differ by exactly 0.01 and    *)
(* never end in half a cent: those are the two places where the rounding   *)
(* of IEEE doubles, which the model does not compute, would decide.        *)
(***************************************************************************)
EXTENDS Integers, Sequences, FiniteSets, TLC

VARIABLES
    extractedData,   \* matcher: the extraction handed to matchInvoiceWithTasks
    tasks,           \* matcher: the task list of the request body
    bestMatch,       \* matcher: the local bestMatch when the verdict is built
    matchResult,     \* matcher: the value returned, or the exception raised
    ocr,             \* OCR: the state of one enhancedExtractFromImage call
    correction,      \* corrector: a text and what applyCharacterCorrections made of it
    extraction,      \* extractors: a text and the candidate lists drawn from it
    pipeline,        \* process endpoint: one document on its way to the matcher
    image,           \* preprocessor: the size of an image and of its resized copy
    disk,            \* uploads directory: what each file holds
    invocations,     \* performOCR: the calls running at the same time
    storage,         \* MemStorage: the settings record and its access token
    uploadedFiles,   \* the uploadedFiles map of the routes
    requests         \* HTTP requests in flight, each with its position

vars == <<extractedData, tasks, bestMatch, matchResult, ocr,
          correction, extraction, pipeline,
          image, disk, invocations, storage, uploadedFiles, requests>>

\* the variables of the preprocessor, the file system and the HTTP server
serviceVars == <<image, disk, invocations, storage, uploadedFiles, requests>>

matchVars == <<extractedData, tasks, bestMatch, matchResult>>

textVars == <<correction, extraction, pipeline>>

-----------------------------------------------------------------------------
(* JavaScript values *)

Null == [t |-> "null"]

Undefined == [t |-> "undefined"]

Str(s) == [t |-> "string", v |-> s]

Num(n) == [t |-> "number", v |-> n]

Arr(a) == [t |-> "array", v |-> a]

-----------------------------------------------------------------------------
(* Strings *)

UpperChars == <<"A","B","C","D","E","F","G","H","I","J","K","L","M",
                "N","O","P","Q","R","S","T","U","V","W","X","Y","Z">>

LowerChars == <<"a","b","c","d","e","f","g","h","i","j","k","l","m",
                "n","o","p","q","r","s","t","u","v","w","x","y","z">>

WhitespaceChars == {" ", "\t", "\n"}

LowerChar(c) ==
    IF \E i \in 1..Len(UpperChars) : UpperChars[i] = c
    THEN LowerChars[CHOOSE i \in 1..Len(UpperChars) : UpperChars[i] = c]
    ELSE c

\* String.prototype.toLowerCase
ToLowerCase(s) == [i \in 1..Len(s) |-> LowerChar(s[i])]

\* String.prototype.includes
Includes(s, sub) ==
    \E i \in 0..(Len(s) - Len(sub)) : SubSeq(s, i + 1, i + Len(sub)) = sub

RECURSIVE SplitFrom(_, _, _, _)
SplitFrom(s, i, cur, acc) ==
    IF i > Len(s) THEN Append(acc, cur)
    ELSE IF s[i] \in WhitespaceChars
         THEN IF i > 1 /\ s[i - 1] \in WhitespaceChars
              THEN SplitFrom(s, i + 1, cur, acc)
              ELSE SplitFrom(s, i + 1, <<>>, Append(acc, cur))
         ELSE SplitFrom(s, i + 1, Append(cur, s[i]), acc)

\* s.split(/\s+/): a run of whitespace separates two parts; leading or
\* trailing whitespace leaves an empty part, and "" splits into [""].
SplitWhitespace(s) == SplitFrom(s, 1, <<>>, <<>>)

DigitChars == <<"0","1","2","3","4","5","6","7","8","9">>

RECURSIVE NatToChars(_)
NatToChars(n) ==
    IF n < 10 THEN <<DigitChars[n + 1]>>
    ELSE NatToChars(n \div 10) \o <<DigitChars[(n % 10) + 1]>>

\* Number.prototype.toFixed(2) of a non-negative amount given in thousandths:
\* the nearest number of cents, the larger one on a tie.
ToFixed2(m) ==
    LET cents == (m + 5) \div 10
    IN  NatToChars(cents \div 100)
          \o <<".", DigitChars[((cents \div 10) % 10) + 1], DigitChars[(cents % 10) + 1]>>

-----------------------------------------------------------------------------
(* Names and amounts the inputs are drawn from *)

Space == <<" ">>

wMike == <<"M","i","k","e">>

wRodriguez == <<"R","o","d","r","i","g","u","e","z">>

wRodrigez == <<"R","o","d","r","i","g","e","z">>

wEmily == <<"E","m","i","l","y">>

wChen == <<"C","h","e","n">>

wUnknown == <<"U","n","k","n","o","w","n">>

wPerson == <<"P","e","r","s","o","n">>

MikeRodriguez == wMike \o Space \o wRodriguez

MRodrigez == <<"M", ".">> \o Space \o wRodrigez

EmilyChen == wEmily \o Space \o wChen

UnknownPerson == wUnknown \o Space \o wPerson

RodriguezMike == wRodriguez \o Space \o wMike

MikeChen == wMike \o Space \o wChen

LowerMike == ToLowerCase(wMike)

\* Staff.Name values of the task list
LedgerNames == {MikeRodriguez, EmilyChen, LowerMike}

\* staffName values of the extraction (null apart)
ExtractedNames ==
    {MikeRodriguez, ToLowerCase(MikeRodriguez), MRodrigez, UnknownPerson,
     wMike, RodriguezMike, MikeChen}

\* totalAmount values of the extraction (null apart), in thousandths
ExtractedAmounts == {150000, 75500, 200000}

\* The tasks a request body is made of: [Staff, Amount] as the matcher reads
\* them (Staff an array of names or absent, Amount a number or absent).
TaskValues ==
    { [Staff |-> Arr(<<MikeRodriguez>>),            Amount |-> Num(150000)],
      [Staff |-> Arr(<<MikeRodriguez>>),            Amount |-> Num(4)],
      [Staff |-> Arr(<<EmilyChen>>),                Amount |-> Num(75500)],
      [Staff |-> Arr(<<LowerMike>>),                Amount |-> Num(150000)],
      [Staff |-> Arr(<<LowerMike, EmilyChen>>),     Amount |-> Num(200000)],
      [Staff |-> Arr(<<EmilyChen, MikeRodriguez>>), Amount |-> Undefined],
      [Staff |-> Undefined,                         Amount |-> Num(75500)],
      [Staff |-> Arr(<<>>),                         Amount |-> Num(150000)] }

MaxTasks == 2

TaskLists == UNION { [1..n -> TaskValues] : n \in 0..MaxTasks }

\* What the process endpoint can hand over as `tasks`: the array of the
\* request body, or undefined when the body has none.
TasksInputs == {Undefined} \cup { Arr(l) : l \in TaskLists }

ExtractionInputs ==
    {Null} \cup
    { [staffName |-> n, totalAmount |-> a] :
        n \in {Null} \cup { Str(s) : s \in ExtractedNames },
        a \in {Null} \cup { Num(x) : x \in ExtractedAmounts } }

-----------------------------------------------------------------------------
(* matchInvoiceWithTasks *)

ExactScore == 100

ContainsScore == 70

PartsWeight == 60

FullMatchMinScore == 70

PartialMatchMinScore == 50

\* 0.01, in thousandths
AmountTolerance == 10

\* A score is the rational num/den: the parts score (m / max) * 60 need not
\* be an integer.
Score(n, d) == [num |-> n, den |-> d]

ScoreGT(a, b) == a.num * b.den > b.num * a.den

ScoreAtLeast(a, k) == a.num >= k * a.den

Abs(x) == IF x < 0 THEN -x ELSE x

\* task.Amount || 0
TaskAmount(task) == IF task.Amount.t = "number" THEN task.Amount.v ELSE 0

\* AddToGroup with `total = task.Amount || 0` in place of `total +=`
AddToGroupLastAmount(groups, name, task) ==
    IF \E i \in 1..Len(groups) : groups[i].staffName = name
    THEN [i \in 1..Len(groups) |->
            IF groups[i].staffName = name
            THEN [groups[i] EXCEPT !.tasks = Append(@, task),
                                   !.total = TaskAmount(task)]
            ELSE groups[i]]
    ELSE Append(groups, [staffName |-> name, tasks |-> <<task>>,
                         total |-> TaskAmount(task)])

\* One pass of the inner loop: create staffGroups[name] when absent, then
\* push the task and add its amount.  A group is [staffName, tasks, total];
\* the sequence is in insertion order, which is the order of Object.entries
\* (no name of the model is an array index).
AddToGroup(groups, name, task) ==
    IF \E i \in 1..Len(groups) : groups[i].staffName = name
    THEN [i \in 1..Len(groups) |->
            IF groups[i].staffName = name
            THEN [groups[i] EXCEPT !.tasks = Append(@, task),
                                   !.total = @ + TaskAmount(task)]
            ELSE groups[i]]
    ELSE Append(groups, [staffName |-> name, tasks |-> <<task>>,
                         total |-> TaskAmount(task)])

RECURSIVE AddStaffOfTask(_, _, _)
AddStaffOfTask(groups, task, j) ==
    IF j > Len(task.Staff.v) THEN groups
    ELSE AddStaffOfTask(AddToGroup(groups, task.Staff.v[j], task), task, j + 1)

RECURSIVE GroupFrom(_, _, _)
GroupFrom(taskList, i, groups) ==
    IF i > Len(taskList) THEN groups
    ELSE LET task == taskList[i]
         IN  IF task.Staff.t = "array" /\ Len(task.Staff.v) > 0
             THEN GroupFrom(taskList, i + 1, AddStaffOfTask(groups, task, 1))
             ELSE GroupFrom(taskList, i + 1, groups)

\* "Group tasks by staff"
StaffGroups(taskList) == GroupFrom(taskList, 1, <<>>)

\* np.includes(p) || p.includes(np)
PartsOverlap(p, np) == Includes(np, p) \/ Includes(p, np)

\* extractedParts.filter(p => nameParts.some(...)).length
MatchingParts(extractedParts, nameParts) ==
    Cardinality({ i \in 1..Len(extractedParts) :
        \E j \in 1..Len(nameParts) : PartsOverlap(extractedParts[i], nameParts[j]) })

Max(a, b) == IF a > b THEN a ELSE b

Candidate(group, score) ==
    [staffName |-> group.staffName, score |-> score, total |-> group.total]

\* Improve without the comparison: the last candidate replaces the best one
ImproveAlways(best, group, score) == Candidate(group, score)

\* if (!bestMatch || score > bestMatch.score) bestMatch = {...}
Improve(best, group, score) ==
    IF best = Null \/ ScoreGT(score, best.score)
    THEN Candidate(group, score)
    ELSE best

NameContains(nameLower, extractedName) ==
    Includes(nameLower, extractedName) \/ Includes(extractedName, nameLower)

\* The body of the scoring loop for one entry that is not an exact match.
ScoreEntry(best, group, extractedName) ==
    LET nameLower      == ToLowerCase(group.staffName)
        afterContains  == IF NameContains(nameLower, extractedName)
                          THEN Improve(best, group, Score(ContainsScore, 1))
                          ELSE best
        extractedParts == SplitWhitespace(extractedName)
        nameParts      == SplitWhitespace(nameLower)
        matching       == MatchingParts(extractedParts, nameParts)
    IN  IF matching > 0
        THEN Improve(afterContains, group,
                     Score(matching * PartsWeight,
                           Max(Len(extractedParts), Len(nameParts))))
        ELSE afterContains

RECURSIVE ScanNames(_, _, _, _)
ScanNames(groups, i, best, extractedName) ==
    IF i > Len(groups) THEN best
    ELSE IF ToLowerCase(groups[i].staffName) = extractedName
         THEN Candidate(groups[i], Score(ExactScore, 1))        \* break
         ELSE ScanNames(groups, i + 1,
                        ScoreEntry(best, groups[i], extractedName), extractedName)

\* if (extractedData.staffName): null and "" are skipped
Truthy(name) == name.t = "string" /\ name.v # <<>>

\* "Try to match by staff name first"
FindBestMatch(ed, groups) ==
    IF Truthy(ed.staffName)
    THEN ScanNames(groups, 1, Null, ToLowerCase(ed.staffName.v))
    ELSE Null

\* AmountMatch without Math.abs
AmountMatchNoAbs(total, amount) ==
    amount # Null /\ total - amount.v < AmountTolerance

\* extractedData.totalAmount !== null && Math.abs(total - totalAmount) < 0.01
AmountMatch(total, amount) ==
    amount # Null /\ Abs(total - amount.v) < AmountTolerance

\* A details string is the sequence of its pieces: fixed text, or computed
\* characters.
Lit(s) == [lit |-> s]

Chars(cs) == [chars |-> cs]

Verdict(status, name, details) ==
    [status |-> status, matchedStaffName |-> name, details |-> details]

Raised(what) == [raised |-> what]

NoDataVerdict == Verdict("no_match", Null, <<Lit("No data to match against")>>)

NotFoundVerdict ==
    Verdict("no_match", Null,
            <<Lit("No matching staff or amount found in system invoices.")>>)

FullMatchVerdict(best) ==
    Verdict("full_match", Str(best.staffName),
            <<Lit("Matched to "), Chars(best.staffName),
              Lit(" with amount $"), Chars(ToFixed2(best.total))>>)

\* AmountDiff written only when the amounts do not match
AmountDiffOnMismatch(best, amount) ==
    IF amount # Null /\ ~AmountMatch(best.total, amount)
    THEN <<Lit("(Invoice: $"), Chars(ToFixed2(amount.v)),
           Lit(", System: $"), Chars(ToFixed2(best.total)), Lit(")")>>
    ELSE <<>>

AmountDiff(best, amount) ==
    IF amount # Null
    THEN <<Lit("(Invoice: $"), Chars(ToFixed2(amount.v)),
           Lit(", System: $"), Chars(ToFixed2(best.total)), Lit(")")>>
    ELSE <<>>

PossibleMatchVerdict(best, amount) ==
    Verdict("partial_match", Str(best.staffName),
            <<Lit("Possible match to "), Chars(best.staffName), Lit(" ")>>
              \o AmountDiff(best, amount) \o <<Lit(". Please verify.")>>)

\* AmountOnlyVerdict with matchedStaffName: null
AmountOnlyVerdictUnnamed(group) ==
    Verdict("partial_match", Null,
            <<Lit("Amount matches "), Chars(group.staffName),
              Lit("'s total ($"), Chars(ToFixed2(group.total)),
              Lit("). Staff name could not be verified.")>>)

AmountOnlyVerdict(group) ==
    Verdict("partial_match", Str(group.staffName),
            <<Lit("Amount matches "), Chars(group.staffName),
              Lit("'s total ($"), Chars(ToFixed2(group.total)),
              Lit("). Staff name could not be verified.")>>)

\* AmountOnly comparing with === instead of the tolerance
AmountOnlyExact(groups, amount) ==
    IF amount # Null /\ \E i \in 1..Len(groups) : groups[i].total = amount.v
    THEN AmountOnlyVerdict(
            groups[CHOOSE i \in 1..Len(groups) :
                      /\ groups[i].total = amount.v
                      /\ \A j \in 1..(i - 1) : groups[j].total # amount.v])
    ELSE NotFoundVerdict

\* "Try to match by amount only": the first entry whose total matches
AmountOnly(groups, amount) ==
    IF amount # Null /\ \E i \in 1..Len(groups) : AmountMatch(groups[i].total, amount)
    THEN AmountOnlyVerdict(
            groups[CHOOSE i \in 1..Len(groups) :
                      /\ AmountMatch(groups[i].total, amount)
                      /\ \A j \in 1..(i - 1) : ~AmountMatch(groups[j].total, amount)])
    ELSE NotFoundVerdict

\* DecideVerdict with the partial-match bar used for the full match too
DecideVerdictLowBar(best, ed, groups) ==
    IF best # Null /\ ScoreAtLeast(best.score, PartialMatchMinScore)
                   /\ AmountMatch(best.total, ed.totalAmount)
    THEN FullMatchVerdict(best)
    ELSE IF best # Null /\ ScoreAtLeast(best.score, PartialMatchMinScore)
         THEN PossibleMatchVerdict(best, ed.totalAmount)
         ELSE AmountOnly(groups, ed.totalAmount)

\* "Determine match status"
DecideVerdict(best, ed, groups) ==
    IF best # Null /\ ScoreAtLeast(best.score, FullMatchMinScore)
                   /\ AmountMatch(best.total, ed.totalAmount)
    THEN FullMatchVerdict(best)
    ELSE IF best # Null /\ ScoreAtLeast(best.score, PartialMatchMinScore)
         THEN PossibleMatchVerdict(best, ed.totalAmount)
         ELSE AmountOnly(groups, ed.totalAmount)

\* The guard `!extractedData || tasks.length === 0`: reading .length of an
\* undefined task list is a TypeError, unless extractedData is null and the
\* || never gets there.
MatchOutcome(ed, ts) ==
    IF ed = Null THEN [best |-> Null, result |-> NoDataVerdict]
    ELSE IF ts.t # "array"
         THEN [best |-> Null, result |-> Raised("TypeError")]
         ELSE IF Len(ts.v) = 0 THEN [best |-> Null, result |-> NoDataVerdict]
              ELSE LET groups == StaffGroups(ts.v)
                       best   == FindBestMatch(ed, groups)
                   IN  [best |-> best, result |-> DecideVerdict(best, ed, groups)]

NotCalled == [pending |-> TRUE]

\* OCR state while the matcher specification runs
OcrIdle == [pc |-> "idle"]

\* corrector, extractor and endpoint state while another specification runs
Idle == [pc |-> "idle"]

\* the preprocessor, the file system and the HTTP server while another
\* specification runs
ServiceIdle ==
    /\ image = Idle
    /\ disk = Idle
    /\ invocations = Idle
    /\ storage = Idle
    /\ uploadedFiles = Idle
    /\ requests = Idle

InitMatch ==
    /\ extractedData \in ExtractionInputs
    /\ tasks \in TasksInputs
    /\ bestMatch = Null
    /\ matchResult = NotCalled
    /\ ocr = OcrIdle
    /\ correction = Idle
    /\ extraction = Idle
    /\ pipeline = Idle
    /\ ServiceIdle

\* const matchResult = matchInvoiceWithTasks(extractedData, tasks)
MatchInvoiceWithTasks ==
    /\ matchResult = NotCalled
    /\ LET out == MatchOutcome(extractedData, tasks)
       IN  /\ bestMatch' = out.best
           /\ matchResult' = out.result
    /\ UNCHANGED <<serviceVars, extractedData, tasks, ocr, textVars>>

NextMatch == MatchInvoiceWithTasks

SpecMatch == InitMatch /\ [][NextMatch]_vars

-----------------------------------------------------------------------------
(* Properties of the matcher *)

Called == matchResult # NotCalled

Returned == Called /\ "status" \in DOMAIN matchResult

\* The matcher got past its first guard: an extraction and a non-empty array
Matched == Returned /\ extractedData # Null /\ tasks.t = "array" /\ Len(tasks.v) > 0

Ledger == StaffGroups(tasks.v)

TimesAssigned(name, task) ==
    IF task.Staff.t = "array"
    THEN Cardinality({ j \in 1..Len(task.Staff.v) : task.Staff.v[j] = name })
    ELSE 0

RECURSIVE SumAssigned(_, _, _)
SumAssigned(name, taskList, i) ==
    IF i > Len(taskList) THEN 0
    ELSE TimesAssigned(name, taskList[i]) * TaskAmount(taskList[i])
           + SumAssigned(name, taskList, i + 1)

\* The ledger total of a staff member: the amounts of the tasks assigned to it
LedgerTotal(name) == SumAssigned(name, tasks.v, 1)

AssignedNames ==
    UNION { IF tasks.v[i].Staff.t = "array"
            THEN { tasks.v[i].Staff.v[j] : j \in 1..Len(tasks.v[i].Staff.v) }
            ELSE {} : i \in 1..Len(tasks.v) }

ExtractedLower == ToLowerCase(extractedData.staffName.v)

SameName(name) == ToLowerCase(name) = ExtractedLower

SubstringName(name) ==
    \/ Includes(ToLowerCase(name), ExtractedLower)
    \/ Includes(ExtractedLower, ToLowerCase(name))

SharedTokens(name) ==
    LET mine   == SplitWhitespace(ExtractedLower)
        theirs == SplitWhitespace(ToLowerCase(name))
    IN  Cardinality({ i \in 1..Len(mine) : \E j \in 1..Len(theirs) :
                        Includes(mine[i], theirs[j]) \/ Includes(theirs[j], mine[i]) })

TokenCount(name) ==
    Max(Len(SplitWhitespace(ExtractedLower)), Len(SplitWhitespace(ToLowerCase(name))))

\* The score the specification gives a ledger name, as a rational
StatedScore(name) ==
    IF SameName(name) THEN Score(100, 1)
    ELSE IF SubstringName(name) THEN Score(70, 1)
         ELSE Score(SharedTokens(name) * 60, TokenCount(name))

AmountsAgree(name) ==
    /\ extractedData.totalAmount # Null
    /\ Abs(LedgerTotal(name) - extractedData.totalAmount.v) < 10

FullMatchCondition ==
    /\ bestMatch # Null
    /\ ScoreAtLeast(bestMatch.score, 70)
    /\ AmountsAgree(bestMatch.staffName)

HasPiece(details, piece) == \E i \in 1..Len(details) : details[i] = piece

HasRun(details, run) ==
    \E i \in 0..(Len(details) - Len(run)) : SubSeq(details, i + 1, i + Len(run)) = run

NonEmptyText(details) ==
    \E i \in 1..Len(details) :
        IF "lit" \in DOMAIN details[i] THEN details[i].lit # "" ELSE details[i].chars # <<>>

\* C1: the verdict is full_match exactly when a best name match with score at
\* least 70 (an exact case-insensitive or a substring match) is retained and
\* the extracted total is present and within 0.01 of that staff member's
\* ledger total; the verdict then names that staff member.
C1_FullMatchIff ==
    Matched =>
        /\ (matchResult.status = "full_match") <=> FullMatchCondition
        /\ FullMatchCondition =>
              /\ matchResult.matchedStaffName = Str(bestMatch.staffName)
              /\ bestMatch.staffName \in AssignedNames
              /\ SameName(bestMatch.staffName) \/ SubstringName(bestMatch.staffName)

C1_Witness ==
    /\ Matched
    /\ matchResult.status = "full_match"
    /\ ~SameName(bestMatch.staffName)
    /\ LedgerTotal(bestMatch.staffName) # extractedData.totalAmount.v

\* C2: a best name match with score at least 50 that is not a full match
\* gives partial_match naming that staff member, whether the amounts agree or
\* not, and when the extracted amount differs from the ledger total the
\* details state the invoice amount and the system amount.
C2_PartialOnName ==
    (Matched /\ bestMatch # Null /\ ScoreAtLeast(bestMatch.score, 50)
             /\ ~FullMatchCondition) =>
        /\ matchResult.status = "partial_match"
        /\ matchResult.matchedStaffName = Str(bestMatch.staffName)
        /\ (/\ extractedData.totalAmount # Null
            /\ extractedData.totalAmount.v # LedgerTotal(bestMatch.staffName)) =>
              HasRun(matchResult.details,
                     <<Lit("(Invoice: $"), Chars(ToFixed2(extractedData.totalAmount.v)),
                       Lit(", System: $"),
                       Chars(ToFixed2(LedgerTotal(bestMatch.staffName)))>>)

C2_Witness ==
    /\ Matched
    /\ bestMatch # Null
    /\ ScoreAtLeast(bestMatch.score, 50)
    /\ ~ScoreAtLeast(bestMatch.score, 70)
    /\ extractedData.totalAmount # Null
    /\ extractedData.totalAmount.v # LedgerTotal(bestMatch.staffName)
    /\ matchResult.status = "partial_match"

\* The scenario of C3: "M. Rodrigez" for 200.00 against a ledger whose only
\* entry is Mike Rodriguez with total 150.00
NearMissScenario ==
    /\ Matched
    /\ extractedData = [staffName |-> Str(MRodrigez), totalAmount |-> Num(200000)]
    /\ AssignedNames = {MikeRodriguez}
    /\ LedgerTotal(MikeRodriguez) = 150000

\* C3 as stated: in the near-miss scenario the token-overlap score is at least
\* 50 and the verdict is partial_match for Mike Rodriguez, amounts noted.
C3_NearMissPartial ==
    NearMissScenario =>
        /\ bestMatch # Null
        /\ ScoreAtLeast(bestMatch.score, 50)
        /\ matchResult.status = "partial_match"
        /\ matchResult.matchedStaffName = Str(MikeRodriguez)
        /\ HasPiece(matchResult.details, Chars(ToFixed2(200000)))
        /\ HasPiece(matchResult.details, Chars(ToFixed2(150000)))

\* C3 amended: in the near-miss scenario no token of one name contains a
\* token of the other, so no name match is retained, and as the amounts
\* differ too the verdict is no_match with no staff name.
C3_NearMissNoMatch ==
    NearMissScenario =>
        /\ SharedTokens(MikeRodriguez) = 0
        /\ bestMatch = Null
        /\ matchResult.status = "no_match"
        /\ matchResult.matchedStaffName = Null

C3_Witness == NearMissScenario /\ matchResult.status = "no_match"

SomeTotalAgrees == \E name \in AssignedNames : AmountsAgree(name)

\* C4: without a qualifying name match (none retained, or score below 50) and
\* with an extracted total, an entry whose total is within 0.01 gives
\* partial_match naming such an entry and saying the name is unverified;
\* when no total agrees the verdict is no_match without a staff name.
C4_AmountOnly ==
    (Matched /\ (bestMatch = Null \/ ~ScoreAtLeast(bestMatch.score, 50))
             /\ extractedData.totalAmount # Null) =>
        IF SomeTotalAgrees
        THEN /\ matchResult.status = "partial_match"
             /\ \E name \in AssignedNames :
                    /\ AmountsAgree(name)
                    /\ matchResult.matchedStaffName = Str(name)
                    /\ HasRun(matchResult.details,
                              <<Lit("Amount matches "), Chars(name)>>)
             /\ HasPiece(matchResult.details,
                         Lit("). Staff name could not be verified."))
        ELSE /\ matchResult.status = "no_match"
             /\ matchResult.matchedStaffName = Null

C4_Witness ==
    /\ Matched
    /\ extractedData.staffName # Null
    /\ bestMatch # Null
    /\ ~ScoreAtLeast(bestMatch.score, 50)
    /\ extractedData.totalAmount # Null
    /\ matchResult.status = "partial_match"
    /\ LedgerTotal(matchResult.matchedStaffName.v) # extractedData.totalAmount.v

\* C5: the matcher never raises: every call returns a verdict, and a null
\* extraction or an empty or missing task list gives no_match without a staff
\* name and with a non-empty details string.
C5_NeverRaises ==
    Called =>
        /\ Returned
        /\ (extractedData = Null \/ tasks.t # "array" \/ Len(tasks.v) = 0) =>
              /\ matchResult.status = "no_match"
              /\ matchResult.matchedStaffName = Null
              /\ NonEmptyText(matchResult.details)

ScoreLE(a, b) == ~ScoreGT(a, b)

\* C6: with a staff name present, the retained bestMatch is a ledger entry of
\* maximal score (100 exact, 70 substring either way, otherwise matching
\* tokens / max token count * 60), whatever the order of the ledger; an exact
\* match anywhere wins with 100; nothing is retained only when every entry
\* scores 0.
C6_BestIsMaximal ==
    (Matched /\ Truthy(extractedData.staffName)) =>
        /\ (bestMatch = Null) <=> (\A name \in AssignedNames : StatedScore(name).num = 0)
        /\ bestMatch # Null =>
              /\ bestMatch.staffName \in AssignedNames
              /\ bestMatch.total = LedgerTotal(bestMatch.staffName)
              /\ ScoreLE(bestMatch.score, StatedScore(bestMatch.staffName))
              /\ ScoreLE(StatedScore(bestMatch.staffName), bestMatch.score)
              /\ \A name \in AssignedNames : ScoreLE(StatedScore(name), bestMatch.score)
        /\ (\E name \in AssignedNames : SameName(name)) =>
              /\ bestMatch # Null
              /\ SameName(bestMatch.staffName)
              /\ bestMatch.score = Score(100, 1)

\* An exact match that comes after a substring match in the ledger
C6_Witness ==
    /\ Matched
    /\ Truthy(extractedData.staffName)
    /\ Len(Ledger) >= 2
    /\ SubstringName(Ledger[1].staffName)
    /\ ~SameName(Ledger[1].staffName)
    /\ bestMatch # Null
    /\ bestMatch.staffName # Ledger[1].staffName
    /\ bestMatch.score = Score(100, 1)

-----------------------------------------------------------------------------
(* OCR escalation: performOCR and enhancedExtractFromImage *)

VISION_FALLBACK_THRESHOLD == 60

\* the confidence extractTextWithVision reports
VisionConfidence == 95

RECURSIVE TrimStart(_)
TrimStart(s) ==
    IF s # <<>> /\ Head(s) \in WhitespaceChars THEN TrimStart(Tail(s)) ELSE s

RECURSIVE TrimEnd(_)
TrimEnd(s) ==
    IF s # <<>> /\ s[Len(s)] \in WhitespaceChars
    THEN TrimEnd(SubSeq(s, 1, Len(s) - 1))
    ELSE s

\* String.prototype.trim
Trim(s) == TrimEnd(TrimStart(s))

ProcessedSuffix == <<"_","p","r","o","c","e","s","s","e","d",".","p","n","g">>

HandwrittenSuffix == <<"_","h","a","n","d","w","r","i","t","t","e","n",".","p","n","g">>

\* path.replace(/\.[^.]+$/, suffix): the pattern matches from the last dot
\* when at least one character follows it; a path without such a dot is
\* returned as it is.
ReplaceExtension(path, suffix) ==
    IF \E i \in 1..(Len(path) - 1) :
          path[i] = "." /\ \A j \in (i + 1)..Len(path) : path[j] # "."
    THEN LET i == CHOOSE k \in 1..(Len(path) - 1) :
                    path[k] = "." /\ \A j \in (k + 1)..Len(path) : path[j] # "."
         IN  SubSeq(path, 1, i - 1) \o suffix
    ELSE path

\* const outputPath = ... of preprocessImage / preprocessHandwritten
OutputPath(imagePath, isHandwritten) ==
    ReplaceExtension(imagePath, IF isHandwritten THEN HandwrittenSuffix
                                ELSE ProcessedSuffix)

\* CleanUp without the test processedPath !== imagePath
CleanUpAnyPath(files, processedPath, imagePath) == files \ {processedPath}

\* "Clean up processed file", on the success and on the error path alike
CleanUp(files, processedPath, imagePath) ==
    IF processedPath # imagePath /\ processedPath \in files
    THEN files \ {processedPath}
    ELSE files

\* NeedsVision with <= for <
NeedsVisionInclusive(confidence) == confidence <= VISION_FALLBACK_THRESHOLD

\* if (ocrResult.confidence < VISION_FALLBACK_THRESHOLD)
NeedsVision(confidence) == confidence < VISION_FALLBACK_THRESHOLD

Extraction(text, confidence) == [rawText |-> text, ocrConfidence |-> confidence]

\* response.choices[0].message.content || ''
VisionText(content) == IF content = Null THEN <<>> ELSE content.v

\* AfterVision that takes the vision text but leaves finalConfidence alone
AfterVisionKeepsConfidence(local, visionText) ==
    IF Len(Trim(visionText)) > 0
    THEN Extraction(visionText, local.confidence)
    ELSE Extraction(local.text, local.confidence)

\* The vision call returned: its text is used when it is not blank
AfterVision(local, visionText) ==
    IF Len(Trim(visionText)) > 0
    THEN Extraction(visionText, VisionConfidence)
    ELSE Extraction(local.text, local.confidence)

\* AfterVisionError without the try/catch around the vision call
AfterVisionErrorRaises(local) == Raised("Vision failed")

\* The vision call threw: "Continue with Tesseract result if Vision fails"
AfterVisionError(local) == Extraction(local.text, local.confidence)

\* File names the upload store gives an image: a unique stem plus the
\* extension of the original name, which may have none.
ImagePaths == { <<"7",".","p","n","g">>, <<"7",".","j","p","e","g">>, <<"7">> }

\* result.data.confidence of the local OCR
ConfidenceValues == {0, 45, 59, 60, 61, 95}

LocalTexts == { <<>>, <<"l","o","c","a","l">> }

\* message.content of the vision reply
VisionContents ==
    {Null} \cup { Str(t) : t \in { <<>>, <<" ">>, <<"\n"," ">>,
                                   <<"v","i","s","i","o","n">>,
                                   <<" ","v","\n">> } }

NoVision == [state |-> "none"]

VisionThrew == [state |-> "threw"]

VisionReplied(text) == [state |-> "replied", text |-> text]

\* matcher state while the OCR specification runs
InitOCR ==
    /\ extractedData = Null
    /\ tasks = Undefined
    /\ bestMatch = Null
    /\ matchResult = NotCalled
    /\ correction = Idle
    /\ extraction = Idle
    /\ pipeline = Idle
    /\ ServiceIdle
    /\ \E path \in ImagePaths, handwritten \in BOOLEAN :
          ocr = [pc |-> "preprocess", imagePath |-> path,
                 isHandwritten |-> handwritten, files |-> {path},
                 preprocessing |-> "pending", processedPath |-> Null,
                 recognized |-> Null, local |-> Null, visionCalls |-> 0,
                 vision |-> NoVision, result |-> NotCalled]

\* preprocessImage / preprocessHandwritten wrote the output file
PreprocessOk ==
    /\ ocr.pc = "preprocess"
    /\ LET out == OutputPath(ocr.imagePath, ocr.isHandwritten)
       IN  /\ out # ocr.imagePath      \* sharp refuses to write onto its input
           /\ ocr' = [ocr EXCEPT !.pc = "recognize",
                                 !.files = @ \cup {out},
                                 !.preprocessing = "returned",
                                 !.processedPath = Str(out)]
    /\ UNCHANGED <<serviceVars, matchVars, textVars>>

\* The pipeline threw and the catch returned inputPath.  toFile may fail
\* before it creates the output file or after it has begun writing it; the
\* catch block removes nothing.
PreprocessFail ==
    /\ ocr.pc = "preprocess"
    /\ \E created \in BOOLEAN :
          LET out == OutputPath(ocr.imagePath, ocr.isHandwritten)
          IN  /\ created => out # ocr.imagePath
              /\ ocr' = [ocr EXCEPT !.pc = "recognize",
                                    !.files = IF created THEN @ \cup {out} ELSE @,
                                    !.preprocessing = "failed",
                                    !.processedPath = Str(ocr.imagePath)]
    /\ UNCHANGED <<serviceVars, matchVars, textVars>>

\* The try block of performOCR ran to its return
RecognizeOk ==
    /\ ocr.pc = "recognize"
    /\ \E text \in LocalTexts, confidence \in ConfidenceValues :
          ocr' = [ocr EXCEPT !.pc = "gate",
                             !.recognized = ocr.processedPath,
                             !.files = CleanUp(@, ocr.processedPath.v, ocr.imagePath),
                             !.local = [text |-> text, confidence |-> confidence]]
    /\ UNCHANGED <<serviceVars, matchVars, textVars>>

\* The worker threw: the catch block cleans up and rethrows, and
\* enhancedExtractFromImage lets the error through
RecognizeFail ==
    /\ ocr.pc = "recognize"
    /\ ocr' = [ocr EXCEPT !.pc = "raised",
                          !.recognized = ocr.processedPath,
                          !.files = CleanUp(@, ocr.processedPath.v, ocr.imagePath),
                          !.result = Raised("OCR failed")]
    /\ UNCHANGED <<serviceVars, matchVars, textVars>>

\* Confidence at or above the threshold: the local result is final
Accept ==
    /\ ocr.pc = "gate"
    /\ ~NeedsVision(ocr.local.confidence)
    /\ ocr' = [ocr EXCEPT !.pc = "done",
                          !.result = Extraction(ocr.local.text, ocr.local.confidence)]
    /\ UNCHANGED <<serviceVars, matchVars, textVars>>

\* await extractTextWithVision(imagePath)
CallVision ==
    /\ ocr.pc = "gate"
    /\ NeedsVision(ocr.local.confidence)
    /\ ocr' = [ocr EXCEPT !.pc = "vision", !.visionCalls = @ + 1]
    /\ UNCHANGED <<serviceVars, matchVars, textVars>>

VisionReturns ==
    /\ ocr.pc = "vision"
    /\ \E content \in VisionContents :
          ocr' = [ocr EXCEPT !.pc = "done",
                             !.vision = VisionReplied(VisionText(content)),
                             !.result = AfterVision(ocr.local, VisionText(content))]
    /\ UNCHANGED <<serviceVars, matchVars, textVars>>

VisionThrows ==
    /\ ocr.pc = "vision"
    /\ ocr' = [ocr EXCEPT !.pc = "done",
                          !.vision = VisionThrew,
                          !.result = AfterVisionError(ocr.local)]
    /\ UNCHANGED <<serviceVars, matchVars, textVars>>

NextOCR ==
    \/ PreprocessOk
    \/ PreprocessFail
    \/ RecognizeOk
    \/ RecognizeFail
    \/ Accept
    \/ CallVision
    \/ VisionReturns
    \/ VisionThrows

SpecOCR == InitOCR /\ [][NextOCR]_vars

-----------------------------------------------------------------------------
(* Properties of the OCR escalation *)

OcrDone == ocr.pc = "done"

LocalKept ==
    /\ "rawText" \in DOMAIN ocr.result
    /\ ocr.result.rawText = ocr.local.text
    /\ ocr.result.ocrConfidence = ocr.local.confidence

\* C7: local OCR confidence of 60 or more (60 included) never invokes the
\* vision fallback, and the result carries the local text and confidence.
C7_AcceptAtThreshold ==
    (ocr.pc \in {"gate", "vision", "done"} /\ ocr.local.confidence >= 60) =>
        /\ ocr.visionCalls = 0
        /\ ocr.pc # "vision"
        /\ ocr.vision = NoVision
        /\ OcrDone => LocalKept

C7_Witness == OcrDone /\ ocr.local.confidence = 60 /\ LocalKept

VisionUsed ==
    /\ "rawText" \in DOMAIN ocr.result
    /\ ocr.result.rawText = ocr.vision.text
    /\ ocr.result.ocrConfidence = 95

\* C8 as stated: confidence below 60 and a vision reply with non-empty text
\* make the vision text and confidence 95 final.
C8_VisionNonEmptyUsed ==
    (OcrDone /\ ocr.local.confidence < 60 /\ ocr.vision.state = "replied"
             /\ ocr.vision.text # <<>>) => VisionUsed

\* C8 amended: confidence below 60 and a vision reply whose text is not
\* blank (non-empty once leading and trailing whitespace is removed) make the
\* vision text and confidence 95 final.
C8_VisionNonBlankUsed ==
    (OcrDone /\ ocr.local.confidence < 60 /\ ocr.vision.state = "replied"
             /\ \E i \in 1..Len(ocr.vision.text) :
                    ocr.vision.text[i] \notin WhitespaceChars) => VisionUsed

C8_Witness ==
    /\ OcrDone
    /\ ocr.local.confidence = 45
    /\ ocr.vision.state = "replied"
    /\ ocr.vision.text = <<" ","v","\n">>
    /\ ocr.local.text # <<>>
    /\ VisionUsed

\* C9: confidence below 60 and a vision call that throws or returns empty
\* text do not make the extraction raise; the result carries the local OCR
\* text and confidence unchanged.
C9_FallbackFailureKeepsLocal ==
    (/\ ocr.pc \in {"done", "raised"}
     /\ ocr.local # Null
     /\ ocr.local.confidence < 60
     /\ \/ ocr.vision.state = "threw"
        \/ ocr.vision.state = "replied" /\ ocr.vision.text = <<>>) =>
        OcrDone /\ LocalKept

C9_Witness ==
    OcrDone /\ ocr.local.confidence = 59 /\ ocr.vision.state = "threw" /\ LocalKept

\* The temporary artifact of this invocation, when it is not the input itself
ArtifactPaths == {OutputPath(ocr.imagePath, ocr.isHandwritten)} \ {ocr.imagePath}

\* performOCR has returned or thrown
OcrEnded == ocr.pc \in {"gate", "vision", "done", "raised"}

\* C10: once the OCR invocation has ended (recognition succeeded, failed, or
\* escalated, preprocessing having failed part-way or not), no preprocessed
\* artifact it created is left on disk.
C10_NoArtifactLeft == OcrEnded => ocr.files \cap ArtifactPaths = {}

-----------------------------------------------------------------------------
(* Regular expressions, matched as RegExp.prototype.exec matches them: the  *)
(* alternatives of a pattern are tried in order, quantifiers are greedy     *)
(* unless a ? follows them, and the first way through the pattern that      *)
(* succeeds is the match.                                                   *)

\* the characters of a string, one by one
Text(str) == [i \in 1..Len(str) |-> SubSeq(str, i, i)]

DigitSet == {DigitChars[i] : i \in 1..Len(DigitChars)}

LetterSet ==
    {UpperChars[i] : i \in 1..Len(UpperChars)}
        \cup {LowerChars[i] : i \in 1..Len(LowerChars)}

\* \w
WordSet == DigitSet \cup LetterSet \cup {"_"}

\* the characters a-b of a class
Range(a, b) ==
    LET Between(chars) ==
            {chars[k] : k \in {k \in 1..Len(chars) :
                                  \E p \in 1..k, q \in k..Len(chars) :
                                      chars[p] = a /\ chars[q] = b}}
    IN  Between(UpperChars) \cup Between(LowerChars) \cup Between(DigitChars)

\* the i flag closes a set under letter case
Fold(set) == {c \in LetterSet \cup set : \E d \in set : LowerChar(c) = LowerChar(d)}

\* A pattern literal is written as its tree, with the literal above it.
\* [...] and \d \s \w and a character are Cls of their set, [^...] is Not,
\* and . is Dot
Cls(set) == [op |-> "cls", set |-> set]

Not(set) == [op |-> "not", set |-> set]

Dot == Not({"\n"})

\* r1r2...
Cat(rs) == [op |-> "cat", rs |-> rs]

\* the characters of a word one after the other, and the same under the i flag
Word(str) == Cat([k \in 1..Len(str) |-> Cls({SubSeq(str, k, k)})])

WordI(str) == Cat([k \in 1..Len(str) |-> Cls(Fold({SubSeq(str, k, k)}))])

\* r1|r2|...
Alt(rs) == [op |-> "alt", rs |-> rs]

\* r{min,max}, r{min,}, r*, r+ and r?; a ? after any of them makes it lazy
Rep(r, min, max) ==
    [op |-> "rep", r |-> r, min |-> min, max |-> max, unbounded |-> FALSE,
     lazy |-> FALSE]

AtLeast(r, min) ==
    [op |-> "rep", r |-> r, min |-> min, max |-> min, unbounded |-> TRUE,
     lazy |-> FALSE]

Star(r) == AtLeast(r, 0)

Plus(r) == AtLeast(r, 1)

Opt(r) == Rep(r, 0, 1)

Lazy(rep) == [rep EXCEPT !.lazy = TRUE]

\* (r), the k-th group of its pattern; (?:r) is r itself
Grp(k, r) == [op |-> "grp", k |-> k, r |-> r]

\* the assertions \b (?=r) (?!r) (?<=[...]) ^ $, and ^ $ under the m flag
WordB == [op |-> "wordb"]

Ahead(r) == [op |-> "ahead", r |-> r]

NotAhead(r) == [op |-> "notahead", r |-> r]

Behind(set) == [op |-> "behind", set |-> set]

Bol == [op |-> "bol"]

Eol == [op |-> "eol"]

BolM == [op |-> "bolm"]

EolM == [op |-> "eolm"]

RECURSIVE Flatten(_)
Flatten(ss) == IF ss = <<>> THEN <<>> ELSE Head(ss) \o Flatten(Tail(ss))

RECURSIVE ReMatch(_, _, _, _)
\* Every way r matches s from position i on, best first: each is the
\* position after the match with the groups captured on the way.
ReMatch(r, s, i, caps) ==
    LET here == <<[pos |-> i, caps |-> caps]>>
        WordAt(k) == k >= 1 /\ k <= Len(s) /\ s[k] \in WordSet
        when(condition) == IF condition THEN here ELSE <<>>
        RECURSIVE Terms(_, _, _)
        RECURSIVE TermsOver(_, _, _)
        \* the terms of a "cat" from the k-th on
        Terms(k, from, groups) ==
            IF k > Len(r.rs) THEN <<[pos |-> from, caps |-> groups]>>
            ELSE TermsOver(k, ReMatch(r.rs[k], s, from, groups), 1)
        TermsOver(k, ms, j) ==
            IF j > Len(ms) THEN <<>>
            ELSE Terms(k + 1, ms[j].pos, ms[j].caps) \o TermsOver(k, ms, j + 1)
        RECURSIVE Repeat(_, _, _, _)
        RECURSIVE RepeatOver(_, _, _, _, _)
        \* a greedy quantifier tries one more repetition first and stopping
        \* here last; a lazy one the other way round
        Repeat(min, max, from, groups) ==
            LET more == IF r.unbounded \/ max > 0
                        THEN RepeatOver(IF min > 0 THEN min - 1 ELSE 0, max - 1,
                                      ReMatch(r.r, s, from, groups), 1, from)
                        ELSE <<>>
                stop == IF min = 0 THEN <<[pos |-> from, caps |-> groups]>> ELSE <<>>
            IN  IF r.lazy THEN stop \o more ELSE more \o stop
        \* a repetition that matched nothing is not repeated
        RepeatOver(min, max, ms, j, from) ==
            IF j > Len(ms) THEN <<>>
            ELSE (IF ms[j].pos > from THEN Repeat(min, max, ms[j].pos, ms[j].caps)
                  ELSE <<>>)
                    \o RepeatOver(min, max, ms, j + 1, from)
        Captured(ms) ==
            [j \in 1..Len(ms) |->
                [pos |-> ms[j].pos,
                 caps |-> (r.k :> <<i, ms[j].pos - 1>>) @@ ms[j].caps]]
        take(condition) == IF condition THEN <<[pos |-> i + 1, caps |-> caps]>> ELSE <<>>
    IN  CASE r.op = "cls" -> take(i <= Len(s) /\ s[i] \in r.set)
          [] r.op = "not" -> take(i <= Len(s) /\ s[i] \notin r.set)
          [] r.op = "cat" -> Terms(1, i, caps)
          [] r.op = "alt" ->
                Flatten([k \in 1..Len(r.rs) |-> ReMatch(r.rs[k], s, i, caps)])
          [] r.op = "rep" -> Repeat(r.min, r.max, i, caps)
          [] r.op = "grp" -> Captured(ReMatch(r.r, s, i, caps))
          [] r.op = "wordb" -> when(WordAt(i - 1) # WordAt(i))
          [] r.op = "ahead" -> when(ReMatch(r.r, s, i, caps) # <<>>)
          [] r.op = "notahead" -> when(ReMatch(r.r, s, i, caps) = <<>>)
          [] r.op = "behind" -> when(i > 1 /\ s[i - 1] \in r.set)
          [] r.op = "bol" -> when(i = 1)
          [] r.op = "eol" -> when(i = Len(s) + 1)
          [] r.op = "bolm" -> when(i = 1 \/ s[i - 1] = "\n")
          [] r.op = "eolm" -> when(i = Len(s) + 1 \/ s[i] = "\n")

\* what the pattern matches at each position of s, as a sequence
MatchesAt(re, s) == [k \in 1..(Len(s) + 1) |-> ReMatch(re, s, k, <<>>)] \o <<>>

RECURSIVE ExecLoop(_, _, _)
\* the exec loop from lastIndex + 1 = from on, `all` being what the pattern
\* matches at each position: the next match is the one at the first position
\* that has one, and an empty match moves lastIndex on by one
ExecLoop(s, all, from) ==
    LET Found(index, last, caps) ==
            <<[index |-> index, last |-> last,
               group |-> (0 :> SubSeq(s, index, last))
                            @@ [k \in DOMAIN caps |->
                                   SubSeq(s, caps[k][1], caps[k][2])]]>>
                \o ExecLoop(s, all, IF last < index THEN index + 1 ELSE last + 1)
        First(starts) ==
            IF starts = {} THEN <<>>
            ELSE LET index == CHOOSE k \in starts : \A j \in starts : k <= j
                 IN  Found(index, all[index][1].pos - 1, all[index][1].caps)
    IN  First({k \in from..Len(all) : all[k] # <<>>})

\* The matches the exec loop of a pattern with the g flag finds from
\* position `from` on, in order: match.index + 1, the position of the last
\* character, and match[0], match[1], ... (a group that took no part in the
\* match is not in the domain)
ReFindAll(re, s, from) == ExecLoop(s, MatchesAt(re, s), from)

\* re.test(s) of a pattern without the g flag
ReTest(re, s) == \E k \in 1..(Len(s) + 1) : ReMatch(re, s, k, <<>>) # <<>>

\* s.replace(re, f) of a pattern with the g flag, f(match) given as the
\* sequence of its values on the matches ms of re in s
ReReplace(s, ms, replacements) ==
    Flatten([j \in 1..Len(ms) |->
                SubSeq(s, IF j = 1 THEN 1 ELSE ms[j - 1].last + 1, ms[j].index - 1)
                    \o replacements[j]])
        \o SubSeq(s, IF ms = <<>> THEN 1 ELSE ms[Len(ms)].last + 1, Len(s))

\* s.replace(/[set]/g, c)
MapChars(s, set, c) == [i \in 1..Len(s) |-> IF s[i] \in set THEN c ELSE s[i]]

-----------------------------------------------------------------------------
(* applyCharacterCorrections, in the two revisions the repository holds *)

\* (s.match(/[set]/g) || []).length
CountIn(s, set) == Cardinality({i \in 1..Len(s) : s[i] \in set})

\* fixed.replace(/[oO]/g, '0').replace(/[lI|]/g, '1')
FixLookAlikes(s) == MapChars(MapChars(s, {"o", "O"}, "0"), {"l", "I", "|"}, "1")

\* the patterns of unnamed/part_006's fixNumericToken
NumericTokenPatterns ==
    \* /(?<=\d)[sS](?=\d)/g
    <<Cat(<<Behind(DigitSet), Cls({"s", "S"}), Ahead(Cls(DigitSet))>>),
      \* /^[sS](?=\d)/g
      Cat(<<Bol, Cls({"s", "S"}), Ahead(Cls(DigitSet))>>),
      \* /(?<=\d)[sS]$/g
      Cat(<<Behind(DigitSet), Cls({"s", "S"}), Eol>>)>>

\* the patterns of unnamed/part_006's applyCharacterCorrections, in the order
\* of its replacements: monetary amounts, S before digits, dates, and
\* numeric sequences
CorrectionPatterns ==
    \* /\$\s*([0-9oOlI|,]+(?:\.[0-9oOlI|]{1,2})?)/g
    <<Cat(<<Cls({"$"}), Star(Cls(WhitespaceChars)),
            Grp(1, Cat(<<Plus(Cls(DigitSet \cup {"o", "O", "l", "I", "|", ","})),
                         Opt(Cat(<<Cls({"."}),
                                   Rep(Cls(DigitSet \cup {"o", "O", "l", "I", "|"}), 1, 2)>>))>>))>>),
      \* /\bS(\d{2,}(?:\.\d{1,2})?)\b/g
      Cat(<<WordB, Cls({"S"}),
            Grp(1, Cat(<<AtLeast(Cls(DigitSet), 2),
                         Opt(Cat(<<Cls({"."}), Rep(Cls(DigitSet), 1, 2)>>))>>)),
            WordB>>),
      \* /\b(\d{1,2})[\/\.\-](\d{1,2})(?:[\/\.\-](\d{2,4}))?\b/g
      Cat(<<WordB, Grp(1, Rep(Cls(DigitSet), 1, 2)), Cls({"/", ".", "-"}),
            Grp(2, Rep(Cls(DigitSet), 1, 2)),
            Opt(Cat(<<Cls({"/", ".", "-"}), Grp(3, Rep(Cls(DigitSet), 2, 4))>>)),
            WordB>>),
      \* /\b(\d+[oOlI|sS]*\d*|\d*[oOlI|sS]+\d+)\b/g
      Cat(<<WordB,
            Grp(1, Alt(<<Cat(<<Plus(Cls(DigitSet)),
                               Star(Cls({"o", "O", "l", "I", "|", "s", "S"})),
                               Star(Cls(DigitSet))>>),
                         Cat(<<Star(Cls(DigitSet)),
                               Plus(Cls({"o", "O", "l", "I", "|", "s", "S"})),
                               Plus(Cls(DigitSet))>>)>>)), WordB>>)>>

IsNumericContext(token) ==
    LET Mostly(digits, letters) == digits > 0 /\ digits >= letters
    IN  Mostly(CountIn(token, DigitSet), CountIn(token, LetterSet))

FixNumericToken(token) ==
    LET Five(s, ms) == ReReplace(s, ms, [j \in 1..Len(ms) |-> <<"5">>])
        RECURSIVE Fives(_, _, _)
        \* the three replacements of S by 5, in order
        Fives(s, patterns, k) ==
            IF k > Len(patterns) THEN s
            ELSE Fives(Five(s, ReFindAll(patterns[k], s, 1)), patterns, k + 1)
    IN  IF ~IsNumericContext(token) THEN token
        ELSE Fives(FixLookAlikes(token), NumericTokenPatterns, 1)

\* ClearlyNumeric with digitCount < letterCount in place of <=
ClearlyNumericOrEqual(match) ==
    LET Clearly(digitCount, letterCount) ==
            ~(digitCount < 2 \/ digitCount < letterCount)
    IN  Clearly(CountIn(match, DigitSet), CountIn(match, LetterSet))

\* the test of the standalone-token rule
ClearlyNumeric(match) ==
    LET Clearly(digitCount, letterCount) ==
            ~(digitCount < 2 \/ digitCount <= letterCount)
    IN  Clearly(CountIn(match, DigitSet), CountIn(match, LetterSet))

\* match.includes('.') ? '.' : match.includes('-') ? '-' : '/'
DateSep(match) ==
    IF Includes(match, <<".">>) THEN "."
    ELSE IF Includes(match, <<"-">>) THEN "-" ELSE "/"

\* day, month and year of a date match joined again by its separator, each
\* as `fixed` gives it; a match without a year has none
JoinDate(fixed, sep) ==
    IF fixed[3] # <<>>
    THEN fixed[1] \o <<sep>> \o fixed[2] \o <<sep>> \o fixed[3]
    ELSE fixed[1] \o <<sep>> \o fixed[2]

\* p1, p2 and p3 of a date match, p3 empty when there is no year
DateParts(m) ==
    <<m.group[1], m.group[2], IF 3 \in DOMAIN m.group THEN m.group[3] ELSE <<>>>>

\* the callback of the date replacement
FixDate(match, parts) ==
    IF CountIn(parts[1], DigitSet) = 0 \/ CountIn(parts[2], DigitSet) = 0
    THEN match
    ELSE JoinDate([k \in 1..3 |-> IF parts[k] = <<>> THEN <<>>
                                  ELSE FixNumericToken(parts[k])],
                  DateSep(match))

\* what the callback of the k-th replacement returns for the match m
Correction(k, m) ==
    CASE k = 1 -> <<"$">> \o FixLookAlikes(m.group[1])
      [] k = 2 -> <<"$">> \o m.group[1]
      [] k = 3 -> FixDate(m.group[0], DateParts(m))
      [] k = 4 -> IF ClearlyNumeric(m.group[0]) THEN FixNumericToken(m.group[0])
                  ELSE m.group[0]

\* correctedText.replace(pattern, callback) of the k-th replacement, ms being
\* the matches of its pattern
Replaced(k, correctedText, ms) ==
    ReReplace(correctedText, ms, [j \in 1..Len(ms) |-> Correction(k, ms[j])])

RECURSIVE Corrections(_, _, _)
\* correctedText = correctedText.replace(...), from the k-th replacement on
Corrections(k, correctedText, patterns) ==
    IF k > Len(patterns) THEN correctedText
    ELSE Corrections(k + 1,
                     Replaced(k, correctedText,
                              ReFindAll(patterns[k], correctedText, 1)),
                     patterns)

ApplyCharacterCorrections(text) == Corrections(1, text, CorrectionPatterns)

\* the patterns of server/ocr-utils.ts's applyCharacterCorrections, in the
\* order of its replacements: amounts, dates and standalone numbers
OcrUtilsCorrectionPatterns ==
    \* /\$?[S5]?(\d*[oOlI|\d]+(?:[.,]\d{2})?)/g
    <<Cat(<<Opt(Cls({"$"})), Opt(Cls({"S", "5"})),
            Grp(1, Cat(<<Star(Cls(DigitSet)),
                         Plus(Cls({"o", "O", "l", "I", "|"} \cup DigitSet)),
                         Opt(Cat(<<Cls({".", ","}),
                                   Rep(Cls(DigitSet), 2, 2)>>))>>))>>),
      \* /(\d{1,2})[\/\.\-](\d{1,2})(?:[\/\.\-](\d{2,4}))?/g
      Cat(<<Grp(1, Rep(Cls(DigitSet), 1, 2)), Cls({"/", ".", "-"}),
            Grp(2, Rep(Cls(DigitSet), 1, 2)),
            Opt(Cat(<<Cls({"/", ".", "-"}), Grp(3, Rep(Cls(DigitSet), 2, 4))>>))>>),
      \* /\b(\d*[oOlIsS|\d]+)\b/g
      Cat(<<WordB,
            Grp(1, Cat(<<Star(Cls(DigitSet)),
                         Plus(Cls({"o", "O", "l", "I", "s", "S", "|"} \cup DigitSet))>>)),
            WordB>>)>>

\* fixed.replace(/^S(\d)/, '$$$1'): the pattern has no g flag
DollarForS(fixed) ==
    LET First(all) ==
            IF all = <<>> THEN fixed
            ELSE ReReplace(fixed, <<all[1]>>, <<<<"$">> \o all[1].group[1]>>)
    \* /^S(\d)/
    IN  First(ReFindAll(Cat(<<Bol, Cls({"S"}), Grp(1, Cls(DigitSet))>>), fixed, 1))

\* p.replace(/[oO]/g, '0').replace(/[lI|]/g, '1').replace(/[sS]/g, '5')
FixAll(s) == MapChars(FixLookAlikes(s), {"s", "S"}, "5")

\* what the callback of the k-th replacement returns for the match m
OcrUtilsCorrection(k, m) ==
    CASE k = 1 -> DollarForS(FixLookAlikes(m.group[0]))
      [] k = 2 -> JoinDate([i \in 1..3 |-> FixAll(DateParts(m)[i])],
                           DateSep(m.group[0]))
      [] k = 3 -> IF CountIn(m.group[0], DigitSet) = 0 THEN m.group[0]
                  ELSE FixAll(m.group[0])

OcrUtilsReplaced(k, correctedText, ms) ==
    ReReplace(correctedText, ms, [j \in 1..Len(ms) |-> OcrUtilsCorrection(k, ms[j])])

RECURSIVE OcrUtilsCorrections(_, _, _)
OcrUtilsCorrections(k, correctedText, patterns) ==
    IF k > Len(patterns) THEN correctedText
    ELSE OcrUtilsCorrections(k + 1,
                             OcrUtilsReplaced(k, correctedText,
                                              ReFindAll(patterns[k], correctedText, 1)),
                             patterns)

OcrUtilsApplyCharacterCorrections(text) ==
    OcrUtilsCorrections(1, text, OcrUtilsCorrectionPatterns)
-----------------------------------------------------------------------------
(* The corrector applied to a text, and to its own output *)

\* the two revisions of the OCR module in the repository
Part006 == "unnamed/part_006"

OcrUtils == "server/ocr-utils.ts"

Revisions == {Part006, OcrUtils}

Corrector(revision, text) ==
    IF revision = Part006 THEN ApplyCharacterCorrections(text)
    ELSE OcrUtilsApplyCharacterCorrections(text)

MaxTextLen == 5

SampleTexts ==
    {Text("Staff: Contractor"), Text("Sep 12"), Text("$1oo.oo"), Text("S100.oo"),
     Text("1/2-2025"), Text("11oS1 1oo1")}

\* every text of at most MaxTextLen characters over a currency sign, the
\* letter read for it, a digit, a look-alike letter, the decimal point and a
\* blank, and the sample texts
Texts ==
    LET TextAlphabet == {"$", "S", "1", "o", ".", " "}
    IN  UNION {[1..n -> TextAlphabet] : n \in 0..MaxTextLen} \cup SampleTexts

InitCorrect ==
    /\ extractedData = Null
    /\ tasks = Undefined
    /\ bestMatch = Null
    /\ matchResult = NotCalled
    /\ ocr = OcrIdle
    /\ extraction = Idle
    /\ pipeline = Idle
    /\ ServiceIdle
    /\ \E revision \in Revisions :
       \E text \in IF revision = Part006 THEN Texts ELSE SampleTexts :
          correction = [pc |-> "text", revision |-> revision, text |-> text,
                        once |-> NotCalled, twice |-> NotCalled]

\* correct(text)
CorrectOnce ==
    /\ correction.pc = "text"
    /\ correction' = [correction EXCEPT
                         !.pc = "once",
                         !.once = Corrector(correction.revision, correction.text)]
    /\ UNCHANGED <<serviceVars, matchVars, ocr, extraction, pipeline>>

\* correct(correct(text))
CorrectTwice ==
    /\ correction.pc = "once"
    /\ correction' = [correction EXCEPT
                         !.pc = "twice",
                         !.twice = Corrector(correction.revision, correction.once)]
    /\ UNCHANGED <<serviceVars, matchVars, ocr, extraction, pipeline>>

NextCorrect == CorrectOnce \/ CorrectTwice

SpecCorrect == InitCorrect /\ [][NextCorrect]_vars

-----------------------------------------------------------------------------
(* Properties of the corrector *)

CorrectedTwice(revision) ==
    correction.pc = "twice" /\ correction.revision = revision

\* C11: applying applyCharacterCorrections twice gives the same text as
\* applying it once, for every input text
C11_Idempotent ==
    CorrectedTwice(Part006) => correction.twice = correction.once

StaffContractor == Text("Staff: Contractor")

CorrectedOnce == correction.pc \in {"once", "twice"}

\* a whitespace-delimited token with a letter, no digit and no currency sign
OrdinaryWord(token) ==
    /\ \E i \in 1..Len(token) : token[i] \in LetterSet
    /\ \A i \in 1..Len(token) : token[i] \notin DigitSet \cup {"$"}

TokenKept(token, text) ==
    \E j \in 1..Len(SplitWhitespace(text)) : SplitWhitespace(text)[j] = token

\* C12: every token of the input that is an ordinary word is a token of
\* applyCharacterCorrections' output, letter for letter, and
\* correct("Staff: Contractor") is its input
C12_WordsKept ==
    CorrectedOnce =>
        /\ \A k \in 1..Len(SplitWhitespace(correction.text)) :
              OrdinaryWord(SplitWhitespace(correction.text)[k])
                  => TokenKept(SplitWhitespace(correction.text)[k], correction.once)
        /\ correction.text = StaffContractor => correction.once = StaffContractor

-----------------------------------------------------------------------------
(* extractDates *)

\* parseInt of a run of digits
RECURSIVE CharsToNat(_)
CharsToNat(ds) ==
    IF ds = <<>> THEN 0
    ELSE 10 * CharsToNat(SubSeq(ds, 1, Len(ds) - 1))
            + (CHOOSE n \in 0..9 : DigitChars[n + 1] = ds[Len(ds)])

\* each pattern with the name of its parse function
DATE_PATTERNS ==
    \* /\b(\d{1,2})[.\/-](\d{1,2})[.\/-](\d{4})\b/g
    <<[pattern |-> Cat(<<WordB, Grp(1, Rep(Cls(DigitSet), 1, 2)),
                         Cls({".", "/", "-"}), Grp(2, Rep(Cls(DigitSet), 1, 2)),
                         Cls({".", "/", "-"}), Grp(3, Rep(Cls(DigitSet), 4, 4)),
                         WordB>>),
       parse |-> "European"],
      \* /\b(\d{1,2})[.\/-](\d{1,2})[.\/-](\d{2})\b/g
      [pattern |-> Cat(<<WordB, Grp(1, Rep(Cls(DigitSet), 1, 2)),
                         Cls({".", "/", "-"}), Grp(2, Rep(Cls(DigitSet), 1, 2)),
                         Cls({".", "/", "-"}), Grp(3, Rep(Cls(DigitSet), 2, 2)),
                         WordB>>),
       parse |-> "European2"],
      \* /\b(\d{1,2})[.\/-](\d{1,2})\b(?![.\/-]\d)/g
      [pattern |-> Cat(<<WordB, Grp(1, Rep(Cls(DigitSet), 1, 2)),
                         Cls({".", "/", "-"}), Grp(2, Rep(Cls(DigitSet), 1, 2)),
                         WordB,
                         NotAhead(Cat(<<Cls({".", "/", "-"}), Cls(DigitSet)>>))>>),
       parse |-> "NoYear"],
      \* /\b(\d{4})[.\/-](\d{1,2})[.\/-](\d{1,2})\b/g
      [pattern |-> Cat(<<WordB, Grp(1, Rep(Cls(DigitSet), 4, 4)),
                         Cls({".", "/", "-"}), Grp(2, Rep(Cls(DigitSet), 1, 2)),
                         Cls({".", "/", "-"}), Grp(3, Rep(Cls(DigitSet), 1, 2)),
                         WordB>>),
       parse |-> "ISO"],
      \* /\b(\d{1,2})[.\/-](\d{1,2})[.\/-](\d{4})\b/g
      [pattern |-> Cat(<<WordB, Grp(1, Rep(Cls(DigitSet), 1, 2)),
                         Cls({".", "/", "-"}), Grp(2, Rep(Cls(DigitSet), 1, 2)),
                         Cls({".", "/", "-"}), Grp(3, Rep(Cls(DigitSet), 4, 4)),
                         WordB>>),
       parse |-> "US"],
      \* /\b(\d{1,2})\s*(Jan|Feb|Mar|Apr|May|Jun|Jul|Aug|Sep|Oct|Nov|Dec)[a-z]*[,.\s]+(\d{2,4})\b/gi
      [pattern |-> Cat(<<WordB, Grp(1, Rep(Cls(DigitSet), 1, 2)),
                         Star(Cls(WhitespaceChars)),
                         Grp(2, Alt(<<WordI("Jan"), WordI("Feb"), WordI("Mar"),
                                      WordI("Apr"), WordI("May"), WordI("Jun"),
                                      WordI("Jul"), WordI("Aug"), WordI("Sep"),
                                      WordI("Oct"), WordI("Nov"), WordI("Dec")>>)),
                         Star(Cls(Fold(Range("a", "z")))),
                         Plus(Cls({",", "."} \cup WhitespaceChars)),
                         Grp(3, Rep(Cls(DigitSet), 2, 4)), WordB>>),
       parse |-> "DayMonthName"],
      \* /\b(Jan|Feb|Mar|Apr|May|Jun|Jul|Aug|Sep|Oct|Nov|Dec)[a-z]*[,.\s]+(\d{1,2})[,.\s]+(\d{2,4})\b/gi
      [pattern |-> Cat(<<WordB,
                         Grp(1, Alt(<<WordI("Jan"), WordI("Feb"), WordI("Mar"),
                                      WordI("Apr"), WordI("May"), WordI("Jun"),
                                      WordI("Jul"), WordI("Aug"), WordI("Sep"),
                                      WordI("Oct"), WordI("Nov"), WordI("Dec")>>)),
                         Star(Cls(Fold(Range("a", "z")))),
                         Plus(Cls({",", "."} \cup WhitespaceChars)),
                         Grp(2, Rep(Cls(DigitSet), 1, 2)),
                         Plus(Cls({",", "."} \cup WhitespaceChars)),
                         Grp(3, Rep(Cls(DigitSet), 2, 4)), WordB>>),
       parse |-> "MonthNameDay"]>>

\* [...DATE_PATTERNS, ...additionalPatterns]
allPatterns ==
    DATE_PATTERNS \o
    \* /(\d{4})[-\/](\d{1,2})[-\/](\d{1,2})/g
    <<[pattern |-> Cat(<<Grp(1, Rep(Cls(DigitSet), 4, 4)), Cls({"-", "/"}),
                         Grp(2, Rep(Cls(DigitSet), 1, 2)), Cls({"-", "/"}),
                         Grp(3, Rep(Cls(DigitSet), 1, 2))>>),
       parse |-> "AdditionalISO"],
      \* /(?:Jan|Feb|Mar|Apr|May|Jun|Jul|Aug|Sep|Sept|Oct|Nov|Dec)[a-z]*\.?\s+(\d{1,2}),?\s+(\d{4})/gi
      [pattern |-> Cat(<<Alt(<<WordI("Jan"), WordI("Feb"), WordI("Mar"),
                               WordI("Apr"), WordI("May"), WordI("Jun"),
                               WordI("Jul"), WordI("Aug"), WordI("Sep"),
                               WordI("Sept"), WordI("Oct"), WordI("Nov"),
                               WordI("Dec")>>), Star(Cls(Fold(Range("a", "z")))),
                         Opt(Cls({"."})), Plus(Cls(WhitespaceChars)),
                         Grp(1, Rep(Cls(DigitSet), 1, 2)), Opt(Cls({","})),
                         Plus(Cls(WhitespaceChars)),
                         Grp(2, Rep(Cls(DigitSet), 4, 4))>>),
       parse |-> "AdditionalMonthName"]>>

\* months[monthStr.toLowerCase().substring(0, 3)] || 0
GetMonthNumber(monthStr) ==
    LET months == <<Text("jan"), Text("feb"), Text("mar"), Text("apr"), Text("may"),
                    Text("jun"), Text("jul"), Text("aug"), Text("sep"), Text("oct"),
                    Text("nov"), Text("dec")>>
        key == SubSeq(ToLowerCase(monthStr), 1, 3)
    IN  IF \E k \in 1..Len(months) : months[k] = key
        THEN CHOOSE k \in 1..Len(months) : months[k] = key
        ELSE 0

NormalizeYear(year) ==
    IF year >= 100 THEN year
    ELSE IF year <= 50 THEN 2000 + year ELSE 1900 + year

\* the parse function of each entry on a match m; Null where it returns
\* null.  The month names of the last entry are those of getMonthNumber
\* (its key sept has four letters and is never looked up).
ParseDate(parse, m, currentYear) ==
    LET n(k) == CharsToNat(m.group[k])
        Parsed(day, month, year) == [day |-> day, month |-> month, year |-> year]
    IN  CASE parse = "European" -> Parsed(n(1), n(2), n(3))
          [] parse = "European2" -> Parsed(n(1), n(2), NormalizeYear(n(3)))
          [] parse = "NoYear" ->
                IF n(1) > 31 \/ n(2) > 12 THEN Null
                ELSE Parsed(n(1), n(2), currentYear)
          [] parse = "ISO" -> Parsed(n(3), n(2), n(1))
          [] parse = "US" ->
                IF n(1) > 12 THEN Parsed(n(1), n(2), n(3))
                ELSE Parsed(n(2), n(1), n(3))
          [] parse = "DayMonthName" ->
                Parsed(n(1), GetMonthNumber(m.group[2]), NormalizeYear(n(3)))
          [] parse = "MonthNameDay" ->
                Parsed(n(2), GetMonthNumber(m.group[1]), NormalizeYear(n(3)))
          [] parse = "AdditionalISO" -> Parsed(n(3), n(2), n(1))
          [] parse = "AdditionalMonthName" ->
                Parsed(n(1), GetMonthNumber(m.group[0]), n(2))

DaysInMonth(month, year) ==
    LET IsLeapYear == (year % 4 = 0 /\ year % 100 # 0) \/ year % 400 = 0
    IN  IF month = 2 THEN (IF IsLeapYear THEN 29 ELSE 28)
        ELSE IF month \in {4, 6, 9, 11} THEN 30 ELSE 31

\* !isNaN(new Date(isoDate).getTime()) for a YYYY-MM-DD string with month
\* 1..12 and day 1..31.  ECMA-262 leaves a day past the end of the month to
\* the implementation: V8, which runs the server, carries it into the next
\* month and returns a date; a strict engine returns NaN.
DateConstructs(p, strict) == ~strict \/ p.day <= DaysInMonth(p.month, p.year)

Min(a, b) == IF a <= b THEN a ELSE b

\* Seen, but no date is ever found in the set
SeenNever(isoDate, seen) == FALSE

\* seen.has(isoDate)
Seen(isoDate, seen) == isoDate \in seen

RECURSIVE SortByConfidence(_)
\* list.sort((a, b) => b.confidence - a.confidence): descending, and stable
SortByConfidence(list) ==
    IF list = <<>> THEN <<>>
    ELSE LET rest == SortByConfidence(Tail(list))
             before == {j \in 1..Len(rest) : rest[j].confidence > Head(list).confidence}
         IN  SubSeq(rest, 1, Cardinality(before)) \o <<Head(list)>>
                \o SubSeq(rest, Cardinality(before) + 1, Len(rest))

\* String(n).padStart(2, '0')
Pad2(n) == IF n < 10 THEN <<"0">> \o NatToChars(n) ELSE NatToChars(n)

\* `${year}-${String(month).padStart(2, '0')}-${String(day).padStart(2, '0')}`
IsoDate(p) ==
    NatToChars(p.year) \o <<"-">> \o Pad2(p.month) \o <<"-">> \o Pad2(p.day)

DateConfidence(match, p) ==
    Min(70 + (IF Len(match) >= 8 THEN 15 ELSE 0)
           + (IF p.year >= 2020 /\ p.year <= 2030 THEN 10 ELSE 0)
           + (IF p.day <= 31 /\ p.month <= 12 THEN 5 ELSE 0),
        100)

\* every match of every pattern, in the order the two loops visit them, each
\* with the name of the parse function of its pattern
DateItems(correctedText, patterns) ==
    LET Matches(parse, ms) == [j \in 1..Len(ms) |-> [parse |-> parse, m |-> ms[j]]]
    IN  Flatten([k \in 1..Len(patterns) |->
                   Matches(patterns[k].parse,
                           ReFindAll(patterns[k].pattern, correctedText, 1))])

\* the body of the while loop on a match parsed as p: the set seen and the
\* list dates after it
DateStep(p, match, loop, strict) ==
    IF p = Null THEN loop
    ELSE IF p.month < 1 \/ p.month > 12 THEN loop
    ELSE IF p.day < 1 \/ p.day > 31 THEN loop
    ELSE IF p.year < 1900 \/ p.year > 2100 THEN loop
    ELSE IF Seen(IsoDate(p), loop.seen) THEN loop
    ELSE [seen |-> loop.seen \cup {IsoDate(p)},
          dates |-> IF ~DateConstructs(p, strict) THEN loop.dates
                    ELSE Append(loop.dates,
                                [dateStr |-> match,
                                 isoDate |-> IsoDate(p),
                                 confidence |-> DateConfidence(match, p)])]

RECURSIVE DateLoop(_, _, _, _, _)
\* the two loops, from the i-th match on
DateLoop(items, i, loop, currentYear, strict) ==
    IF i > Len(items) THEN loop.dates
    ELSE DateLoop(items, i + 1,
                  DateStep(ParseDate(items[i].parse, items[i].m, currentYear),
                           items[i].m.group[0], loop, strict),
                  currentYear, strict)

ExtractDates(text, currentYear, strict) ==
    SortByConfidence(DateLoop(DateItems(ApplyCharacterCorrections(text), allPatterns),
                              1, [seen |-> {}, dates |-> <<>>], currentYear, strict))
-----------------------------------------------------------------------------
(* extractAmounts, in both revisions.  An amount is a number of thousandths. *)

\* the patterns of unnamed/part_006's extractAmounts: the amountPatterns
\* array and the two tests of the confidence
AmountPatterns ==
    [amountPatterns |->
        \* /(?:total|amount|sum|due|pay|price|cost|fee|charge)[:\s]+\$?\s*(\d{1,3}(?:,\d{3})*(?:\.\d{1,2})?|\d+(?:\.\d{1,2})?)/gi
        <<Cat(<<Alt(<<WordI("total"), WordI("amount"), WordI("sum"), WordI("due"),
                      WordI("pay"), WordI("price"), WordI("cost"), WordI("fee"),
                      WordI("charge")>>), Plus(Cls({":"} \cup WhitespaceChars)),
                Opt(Cls({"$"})), Star(Cls(WhitespaceChars)),
                Grp(1, Alt(<<Cat(<<Rep(Cls(DigitSet), 1, 3),
                                   Star(Cat(<<Cls({","}),
                                              Rep(Cls(DigitSet), 3, 3)>>)),
                                   Opt(Cat(<<Cls({"."}),
                                             Rep(Cls(DigitSet), 1, 2)>>))>>),
                             Cat(<<Plus(Cls(DigitSet)),
                                   Opt(Cat(<<Cls({"."}),
                                             Rep(Cls(DigitSet), 1, 2)>>))>>)>>))>>),
          \* /\$\s*(\d{1,3}(?:,\d{3})*(?:\.\d{1,2})?|\d+(?:\.\d{1,2})?)/g
          Cat(<<Cls({"$"}), Star(Cls(WhitespaceChars)),
                Grp(1, Alt(<<Cat(<<Rep(Cls(DigitSet), 1, 3),
                                   Star(Cat(<<Cls({","}),
                                              Rep(Cls(DigitSet), 3, 3)>>)),
                                   Opt(Cat(<<Cls({"."}),
                                             Rep(Cls(DigitSet), 1, 2)>>))>>),
                             Cat(<<Plus(Cls(DigitSet)),
                                   Opt(Cat(<<Cls({"."}),
                                             Rep(Cls(DigitSet), 1, 2)>>))>>)>>))>>),
          \* /\b(\d{1,3}(?:,\d{3})*\.\d{2}|\d+\.\d{2})\b/g
          Cat(<<WordB,
                Grp(1, Alt(<<Cat(<<Rep(Cls(DigitSet), 1, 3),
                                   Star(Cat(<<Cls({","}),
                                              Rep(Cls(DigitSet), 3, 3)>>)),
                                   Cls({"."}), Rep(Cls(DigitSet), 2, 2)>>),
                             Cat(<<Plus(Cls(DigitSet)), Cls({"."}),
                                   Rep(Cls(DigitSet), 2, 2)>>)>>)), WordB>>),
          \* /(?:USD|AUD|GBP|EUR|£|\$)\s*(\d{1,3}(?:,\d{3})*(?:\.\d{1,2})?|\d+(?:\.\d{1,2})?)/gi
          Cat(<<Alt(<<WordI("USD"), WordI("AUD"), WordI("GBP"), WordI("EUR"),
                      Cls({"£"}), Cls({"$"})>>), Star(Cls(WhitespaceChars)),
                Grp(1, Alt(<<Cat(<<Rep(Cls(DigitSet), 1, 3),
                                   Star(Cat(<<Cls({","}),
                                              Rep(Cls(DigitSet), 3, 3)>>)),
                                   Opt(Cat(<<Cls({"."}),
                                             Rep(Cls(DigitSet), 1, 2)>>))>>),
                             Cat(<<Plus(Cls(DigitSet)),
                                   Opt(Cat(<<Cls({"."}),
                                             Rep(Cls(DigitSet), 1, 2)>>))>>)>>))>>),
          \* /\b(\d{4,}(?:,\d{3})*(?:\.\d{2})?)\b/g
          Cat(<<WordB,
                Grp(1, Cat(<<AtLeast(Cls(DigitSet), 4),
                             Star(Cat(<<Cls({","}), Rep(Cls(DigitSet), 3, 3)>>)),
                             Opt(Cat(<<Cls({"."}), Rep(Cls(DigitSet), 2, 2)>>))>>)),
                WordB>>)>>,
     \* /^[^\d]*\d/
     leadingDigit |-> Cat(<<Bol, Star(Not(DigitSet)), Cls(DigitSet)>>),
     \* /total|amount|sum|due|pay|price|cost|fee|charge/i
     label |-> Alt(<<WordI("total"), WordI("amount"), WordI("sum"), WordI("due"),
                     WordI("pay"), WordI("price"), WordI("cost"), WordI("fee"),
                     WordI("charge")>>)]

\* s without the characters of set
Without(s, set) == SelectSeq(s, LAMBDA c : c \notin set)

\* parseFloat of digits with at most one point: the digits before the point
\* and up to three after it, in thousandths.  The texts of the model hold no
\* run of more than six digits, so the value stays within TLC's integers.
ParseFloat(numStr) ==
    LET point == IF \E i \in 1..Len(numStr) : numStr[i] = "."
                 THEN CHOOSE i \in 1..Len(numStr) :
                          numStr[i] = "." /\ \A j \in 1..(i - 1) : numStr[j] # "."
                 ELSE Len(numStr) + 1
        whole == SubSeq(numStr, 1, point - 1)
        frac == SubSeq(numStr, point + 1, Len(numStr))
        digit(k) == IF k <= Len(frac) THEN CharsToNat(<<frac[k]>>) ELSE 0
    IN  1000 * CharsToNat(whole) + 100 * digit(1) + 10 * digit(2) + digit(3)

\* every match of every pattern of an array, in the order the two loops
\* visit them
AllMatches(correctedText, patterns) ==
    Flatten([k \in 1..Len(patterns) |-> ReFindAll(patterns[k], correctedText, 1)])

\* match[1] || match[0]
FirstGroup(m) ==
    IF 1 \in DOMAIN m.group /\ m.group[1] # <<>> THEN m.group[1] ELSE m.group[0]

\* parseFloat((match[1] || match[0]).replace(/[$,£€USD AUDGBPEURa-z]/gi, '').trim())
AmountOf(m) ==
    ParseFloat(Trim(Without(FirstGroup(m), {"$", ",", "£", "€", " "} \cup LetterSet)))

AmountConfidence(match, amount, patterns) ==
    Min(50 + (IF ReTest(patterns.leadingDigit, match) THEN 20 ELSE 0)
           + (IF \E i \in 1..Len(match) : match[i] \in {"$", "£", "€"}
              THEN 25 ELSE 0)
           + (IF ReTest(patterns.label, match) THEN 20 ELSE 0)
           + (IF Includes(match, <<".">>) THEN 5 ELSE 0)
           + (IF amount >= 100000 THEN 5 ELSE 0),
        100)

\* the body of the while loop on a match m that parses as amount: the set
\* seen and the list amounts after it
AmountStep(m, amount, loop, patterns) ==
    IF amount <= 0 \/ ToFixed2(amount) \in loop.seen THEN loop
    ELSE [seen |-> loop.seen \cup {ToFixed2(amount)},
          amounts |-> Append(loop.amounts,
                             [amount |-> amount,
                              original |-> Trim(m.group[0]),
                              confidence |->
                                  AmountConfidence(m.group[0], amount, patterns)])]

RECURSIVE AmountLoop(_, _, _, _)
AmountLoop(ms, i, loop, patterns) ==
    IF i > Len(ms) THEN loop.amounts
    ELSE AmountLoop(ms, i + 1, AmountStep(ms[i], AmountOf(ms[i]), loop, patterns),
                    patterns)

\* the element a of a sorted list put where `before` counts the elements
\* that sort before it
Inserted(rest, a, before) ==
    SubSeq(rest, 1, before) \o <<a>> \o SubSeq(rest, before + 1, Len(rest))

RECURSIVE SortAmounts(_)
\* amounts.sort: higher confidence first, the larger amount first among
\* equals
SortAmounts(list) ==
    LET Before(rest, a) ==
            Cardinality({j \in 1..Len(rest) :
                            \/ rest[j].confidence > a.confidence
                            \/ /\ rest[j].confidence = a.confidence
                               /\ rest[j].amount > a.amount})
        Insert(rest, a) == Inserted(rest, a, Before(rest, a))
    IN  IF list = <<>> THEN <<>>
        ELSE Insert(SortAmounts(Tail(list)), Head(list))

\* the function after the text is corrected
AmountsOf(correctedText, patterns) ==
    SortAmounts(AmountLoop(AllMatches(correctedText, patterns.amountPatterns), 1,
                           [seen |-> {}, amounts |-> <<>>], patterns))

ExtractAmounts(text) == AmountsOf(ApplyCharacterCorrections(text), AmountPatterns)

\* the patterns of server/ocr-utils.ts's extractAmounts
OcrUtilsAmountPatterns ==
    [amountPatterns |->
        \* /\$?\s*(\d{1,3}(?:,\d{3})*(?:\.\d{1,2})?|\d+(?:\.\d{1,2})?)/g
        <<Cat(<<Opt(Cls({"$"})), Star(Cls(WhitespaceChars)),
                Grp(1, Alt(<<Cat(<<Rep(Cls(DigitSet), 1, 3),
                                   Star(Cat(<<Cls({","}),
                                              Rep(Cls(DigitSet), 3, 3)>>)),
                                   Opt(Cat(<<Cls({"."}),
                                             Rep(Cls(DigitSet), 1, 2)>>))>>),
                             Cat(<<Plus(Cls(DigitSet)),
                                   Opt(Cat(<<Cls({"."}),
                                             Rep(Cls(DigitSet), 1, 2)>>))>>)>>))>>),
          \* /(?:total|amount|sum|due|pay)[:\s]*\$?\s*(\d{1,3}(?:,\d{3})*(?:\.\d{1,2})?)/gi
          Cat(<<Alt(<<WordI("total"), WordI("amount"), WordI("sum"), WordI("due"),
                      WordI("pay")>>), Star(Cls({":"} \cup WhitespaceChars)),
                Opt(Cls({"$"})), Star(Cls(WhitespaceChars)),
                Grp(1, Cat(<<Rep(Cls(DigitSet), 1, 3),
                             Star(Cat(<<Cls({","}), Rep(Cls(DigitSet), 3, 3)>>)),
                             Opt(Cat(<<Cls({"."}),
                                       Rep(Cls(DigitSet), 1, 2)>>))>>))>>)>>,
     \* /total|amount|sum|due|pay/i
     label |-> Alt(<<WordI("total"), WordI("amount"), WordI("sum"), WordI("due"),
                     WordI("pay")>>)]

\* parseFloat((match[1] || match[0]).replace(/[$,\s]/g, ''))
OcrUtilsAmountOf(m) ==
    ParseFloat(Without(FirstGroup(m), {"$", ","} \cup WhitespaceChars))

OcrUtilsAmountConfidence(match, patterns) ==
    Min(60 + (IF Includes(match, <<"$">>) THEN 20 ELSE 0)
           + (IF ReTest(patterns.label, match) THEN 15 ELSE 0)
           + (IF Includes(match, <<".">>) THEN 5 ELSE 0),
        100)

OcrUtilsAmountStep(m, amount, loop, patterns) ==
    IF amount <= 0 \/ amount \in loop.seen THEN loop
    ELSE [seen |-> loop.seen \cup {amount},
          amounts |-> Append(loop.amounts,
                             [amount |-> amount,
                              original |-> Trim(m.group[0]),
                              confidence |->
                                  OcrUtilsAmountConfidence(m.group[0], patterns)])]

RECURSIVE OcrUtilsAmountLoop(_, _, _, _)
OcrUtilsAmountLoop(ms, i, loop, patterns) ==
    IF i > Len(ms) THEN loop.amounts
    ELSE OcrUtilsAmountLoop(ms, i + 1,
                            OcrUtilsAmountStep(ms[i], OcrUtilsAmountOf(ms[i]), loop,
                                               patterns),
                            patterns)

RECURSIVE OcrUtilsSortAmounts(_)
\* amounts.sort((a, b) => b.amount - a.amount)
OcrUtilsSortAmounts(list) ==
    LET Before(rest, a) == Cardinality({j \in 1..Len(rest) : rest[j].amount > a.amount})
        Insert(rest, a) == Inserted(rest, a, Before(rest, a))
    IN  IF list = <<>> THEN <<>>
        ELSE Insert(OcrUtilsSortAmounts(Tail(list)), Head(list))

OcrUtilsAmountsOf(correctedText, patterns) ==
    OcrUtilsSortAmounts(
        OcrUtilsAmountLoop(AllMatches(correctedText, patterns.amountPatterns), 1,
                           [seen |-> {}, amounts |-> <<>>], patterns))

OcrUtilsExtractAmounts(text) ==
    OcrUtilsAmountsOf(OcrUtilsApplyCharacterCorrections(text), OcrUtilsAmountPatterns)
-----------------------------------------------------------------------------
(* extractNames *)

\* the patterns of extractNames: the staffPatterns and propertyPatterns
\* arrays and the tests of the loops
NamePatterns ==
    [staffPatterns |->
        \* /(?:staff|contractor|technician|cleaner|worker|employee|performed\s+by|submitted\s+by|completed\s+by|from|by|name|invoice\s+from)[:\s]+([A-Z][a-zA-Z]+(?:\s+[A-Z][a-zA-Z]+)*)/gi
        <<Cat(<<Alt(<<WordI("staff"), WordI("contractor"), WordI("technician"),
                      WordI("cleaner"), WordI("worker"), WordI("employee"),
                      Cat(<<WordI("performed"), Plus(Cls(WhitespaceChars)),
                            WordI("by")>>),
                      Cat(<<WordI("submitted"), Plus(Cls(WhitespaceChars)),
                            WordI("by")>>),
                      Cat(<<WordI("completed"), Plus(Cls(WhitespaceChars)),
                            WordI("by")>>), WordI("from"), WordI("by"),
                      WordI("name"),
                      Cat(<<WordI("invoice"), Plus(Cls(WhitespaceChars)),
                            WordI("from")>>)>>),
                Plus(Cls({":"} \cup WhitespaceChars)),
                Grp(1, Cat(<<Cls(Fold(Range("A", "Z"))),
                             Plus(Cls(Fold(Range("a", "z") \cup Range("A", "Z")))),
                             Star(Cat(<<Plus(Cls(WhitespaceChars)),
                                        Cls(Fold(Range("A", "Z"))),
                                        Plus(Cls(Fold(Range("a", "z") \cup Range("A", "Z"))))>>))>>))>>),
          \* /(?:Mr\.?|Mrs\.?|Ms\.?|Miss)\s+([A-Z][a-z]+(?:\s+[A-Z][a-z]+)*)/g
          Cat(<<Alt(<<Cat(<<Word("Mr"), Opt(Cls({"."}))>>),
                      Cat(<<Word("Mrs"), Opt(Cls({"."}))>>),
                      Cat(<<Word("Ms"), Opt(Cls({"."}))>>), Word("Miss")>>),
                Plus(Cls(WhitespaceChars)),
                Grp(1, Cat(<<Cls(Range("A", "Z")), Plus(Cls(Range("a", "z"))),
                             Star(Cat(<<Plus(Cls(WhitespaceChars)),
                                        Cls(Range("A", "Z")),
                                        Plus(Cls(Range("a", "z")))>>))>>))>>),
          \* /^(?:Staff|Contractor|Cleaner|Technician)[:\s]+(.+?)$/gim
          Cat(<<BolM,
                Alt(<<WordI("Staff"), WordI("Contractor"), WordI("Cleaner"),
                      WordI("Technician")>>), Plus(Cls({":"} \cup WhitespaceChars)),
                Grp(1, Lazy(Plus(Dot))), EolM>>),
          \* /\b([A-Z][a-z]{2,15}\s+[A-Z][a-z]{2,15}(?:\s+[A-Z][a-z]{2,15})?)\b/g
          Cat(<<WordB,
                Grp(1, Cat(<<Cls(Range("A", "Z")), Rep(Cls(Range("a", "z")), 2, 15),
                             Plus(Cls(WhitespaceChars)), Cls(Range("A", "Z")),
                             Rep(Cls(Range("a", "z")), 2, 15),
                             Opt(Cat(<<Plus(Cls(WhitespaceChars)),
                                       Cls(Range("A", "Z")),
                                       Rep(Cls(Range("a", "z")), 2, 15)>>))>>)),
                WordB>>)>>,
     propertyPatterns |->
        \* /(?:property|address|location|unit|apt|apartment|site)[:\s#]*([A-Z0-9][^\n,]{3,50})/gi
        <<Cat(<<Alt(<<WordI("property"), WordI("address"), WordI("location"),
                      WordI("unit"), WordI("apt"), WordI("apartment"),
                      WordI("site")>>),
                Star(Cls({":"} \cup WhitespaceChars \cup {"#"})),
                Grp(1, Cat(<<Cls(Fold(Range("A", "Z") \cup DigitSet)),
                             Rep(Not({"\n", ","}), 3, 50)>>))>>),
          \* /(\d+\s+[A-Z][a-z]+(?:\s+(?:St|Street|Ave|Avenue|Rd|Road|Dr|Drive|Ln|Lane|Blvd|Boulevard|Way|Ct|Court|Cres|Crescent)\.?))/gi
          Grp(1, Cat(<<Plus(Cls(DigitSet)), Plus(Cls(WhitespaceChars)),
                       Cls(Fold(Range("A", "Z"))), Plus(Cls(Fold(Range("a", "z")))),
                       Cat(<<Plus(Cls(WhitespaceChars)),
                             Alt(<<WordI("St"), WordI("Street"), WordI("Ave"),
                                   WordI("Avenue"), WordI("Rd"), WordI("Road"),
                                   WordI("Dr"), WordI("Drive"), WordI("Ln"),
                                   WordI("Lane"), WordI("Blvd"), WordI("Boulevard"),
                                   WordI("Way"), WordI("Ct"), WordI("Court"),
                                   WordI("Cres"), WordI("Crescent")>>),
                             Opt(Cls({"."}))>>)>>))>>,
     \* /^\d/
     leadingDigit |-> Cat(<<Bol, Cls(DigitSet)>>),
     \* /\d{4}/
     fourDigits |-> Rep(Cls(DigitSet), 4, 4),
     \* /staff|contractor|technician|cleaner|worker|employee|performed|submitted|completed/i
     staffLabel |-> Alt(<<WordI("staff"), WordI("contractor"), WordI("technician"),
                          WordI("cleaner"), WordI("worker"), WordI("employee"),
                          WordI("performed"), WordI("submitted"),
                          WordI("completed")>>),
     \* /from|by|name/i
     fromLabel |-> Alt(<<WordI("from"), WordI("by"), WordI("name")>>),
     \* /^[A-Z][a-z]+\s+[A-Z][a-z]+$/
     firstLast |-> Cat(<<Bol, Cls(Range("A", "Z")), Plus(Cls(Range("a", "z"))),
                         Plus(Cls(WhitespaceChars)), Cls(Range("A", "Z")),
                         Plus(Cls(Range("a", "z"))), Eol>>),
     \* /Mr|Mrs|Ms|Miss/i
     title |-> Alt(<<WordI("Mr"), WordI("Mrs"), WordI("Ms"), WordI("Miss")>>),
     \* /property|address|location|site/i
     propertyLabel |-> Alt(<<WordI("property"), WordI("address"), WordI("location"),
                             WordI("site")>>),
     \* /\d+/
     digits |-> Plus(Cls(DigitSet)),
     \* /St|Street|Ave|Avenue|Rd|Road|Dr|Drive/i
     streetWord |-> Alt(<<WordI("St"), WordI("Street"), WordI("Ave"),
                          WordI("Avenue"), WordI("Rd"), WordI("Road"), WordI("Dr"),
                          WordI("Drive")>>)]

excludeWords ==
    {Text("the"), Text("a"), Text("an"), Text("and"), Text("or"), Text("for"),
     Text("to"), Text("from"), Text("with"), Text("this"), Text("that"),
     Text("total"), Text("amount"), Text("invoice"), Text("date"), Text("due"),
     Text("payment"), Text("paid"), Text("balance"),
     Text("description"), Text("quantity"), Text("price"), Text("subtotal"),
     Text("tax"), Text("grand"), Text("thank"), Text("you"),
     Text("jan"), Text("feb"), Text("mar"), Text("apr"), Text("may"), Text("jun"),
     Text("jul"), Text("aug"), Text("sep"), Text("oct"), Text("nov"), Text("dec"),
     Text("monday"), Text("tuesday"), Text("wednesday"), Text("thursday"),
     Text("friday"), Text("saturday"), Text("sunday"),
     Text("cleaning"), Text("service"), Text("services"), Text("maintenance"),
     Text("repair"), Text("job"), Text("work"),
     Text("please"), Text("note"), Text("notes"), Text("terms"),
     Text("conditions"), Text("unit")}

\* every match of the patterns of an array in the order the two loops visit
\* them, each with the type its loop gives a name
TypedMatches(patterns, type, text) ==
    LET Typed(ms) == [j \in 1..Len(ms) |-> [type |-> type, m |-> ms[j]]]
    IN  Flatten([k \in 1..Len(patterns) |-> Typed(ReFindAll(patterns[k], text, 1))])

\* the tests that make the staff loop skip a name
StaffSkipped(name, patterns) ==
    LET Excluded(words) ==
            \/ \E k \in 1..Len(words) : words[k] \in excludeWords
            \/ Len(words) = 1 /\ Len(name) < 4
    IN  \/ Excluded(SplitWhitespace(ToLowerCase(name)))
        \/ ReTest(patterns.leadingDigit, name)
        \/ ReTest(patterns.fourDigits, name)

StaffConfidence(match, name, patterns) ==
    Min(50 + (IF ReTest(patterns.staffLabel, match) THEN 35
              ELSE IF ReTest(patterns.fromLabel, match) THEN 25 ELSE 0)
           + (IF ReTest(patterns.firstLast, name) THEN 15 ELSE 0)
           + (IF ReTest(patterns.title, match) THEN 10 ELSE 0),
        100)

PropertyConfidence(match, name, patterns) ==
    Min(50 + (IF ReTest(patterns.propertyLabel, match) THEN 25 ELSE 0)
           + (IF ReTest(patterns.digits, name) THEN 10 ELSE 0)
           + (IF ReTest(patterns.streetWord, name) THEN 15 ELSE 0),
        100)

\* the body of the staff loop and of the property loop on a match with the
\* name (match[1] || match[0]).trim(): the set seen and the list names
\* after it
NameStep(type, match, name, loop, patterns) ==
    IF Len(name) < 3 \/ Len(name) > (IF type = "staff" THEN 50 ELSE 100) THEN loop
    ELSE IF ToLowerCase(name) \in loop.seen THEN loop
    ELSE IF type = "staff" /\ StaffSkipped(name, patterns) THEN loop
    ELSE [seen |-> loop.seen \cup {ToLowerCase(name)},
          names |-> Append(loop.names,
                           [name |-> name, type |-> type,
                            confidence |->
                                IF type = "staff"
                                THEN StaffConfidence(match, name, patterns)
                                ELSE PropertyConfidence(match, name, patterns)])]

RECURSIVE NameLoop(_, _, _, _)
\* the staff loops, then the property loops, from the i-th match on
NameLoop(items, i, loop, patterns) ==
    IF i > Len(items) THEN loop.names
    ELSE NameLoop(items, i + 1,
                  NameStep(items[i].type, items[i].m.group[0],
                           Trim(FirstGroup(items[i].m)), loop, patterns),
                  patterns)

NamesOf(text, patterns) ==
    SortByConfidence(
        NameLoop(TypedMatches(patterns.staffPatterns, "staff", text)
                    \o TypedMatches(patterns.propertyPatterns, "property", text),
                 1, [seen |-> {}, names |-> <<>>], patterns))

\* the patterns run over the text as it is given: no correction here
ExtractNames(text) == NamesOf(text, NamePatterns)

-----------------------------------------------------------------------------
(* extractAllData *)

\* phonePattern, emailPattern and addressPattern
ContactPatterns ==
    \* /\b(?:\+?1[-.]?)?\(?\d{3}\)?[-.]?\d{3}[-.]?\d{4}\b/g
    [phonePattern |-> Cat(<<WordB,
                            Opt(Cat(<<Opt(Cls({"+"})), Cls({"1"}),
                                      Opt(Cls({"-", "."}))>>)), Opt(Cls({"("})),
                            Rep(Cls(DigitSet), 3, 3), Opt(Cls({")"})),
                            Opt(Cls({"-", "."})), Rep(Cls(DigitSet), 3, 3),
                            Opt(Cls({"-", "."})), Rep(Cls(DigitSet), 4, 4),
                            WordB>>),
     \* /\b[A-Za-z0-9._%+-]+@[A-Za-z0-9.-]+\.[A-Z|a-z]{2,}\b/g
     emailPattern |-> Cat(<<WordB,
                            Plus(Cls(Range("A", "Z") \cup Range("a", "z") \cup DigitSet \cup {".", "_", "%", "+", "-"})),
                            Cls({"@"}),
                            Plus(Cls(Range("A", "Z") \cup Range("a", "z") \cup DigitSet \cup {".", "-"})),
                            Cls({"."}),
                            AtLeast(Cls(Range("A", "Z") \cup {"|"} \cup Range("a", "z")), 2),
                            WordB>>),
     \* /(\d+\s+[A-Z][a-z]+(?:\s+(?:St|Street|Ave|Avenue|Rd|Road|Dr|Drive|Ln|Lane|Blvd|Boulevard|Way|Ct|Court|Cres|Crescent|Plaza|Park|Terrace|Hall|Gate|Court|Square|Close)\.?)?(?:\s+[A-Z][a-z]+)*(?:\s+[A-Z]{2}\s*\d{5})?)/gi
     addressPattern |-> Grp(1, Cat(<<Plus(Cls(DigitSet)),
                                     Plus(Cls(WhitespaceChars)),
                                     Cls(Fold(Range("A", "Z"))),
                                     Plus(Cls(Fold(Range("a", "z")))),
                                     Opt(Cat(<<Plus(Cls(WhitespaceChars)),
                                               Alt(<<WordI("St"), WordI("Street"),
                                                     WordI("Ave"), WordI("Avenue"),
                                                     WordI("Rd"), WordI("Road"),
                                                     WordI("Dr"), WordI("Drive"),
                                                     WordI("Ln"), WordI("Lane"),
                                                     WordI("Blvd"),
                                                     WordI("Boulevard"),
                                                     WordI("Way"), WordI("Ct"),
                                                     WordI("Court"), WordI("Cres"),
                                                     WordI("Crescent"),
                                                     WordI("Plaza"), WordI("Park"),
                                                     WordI("Terrace"),
                                                     WordI("Hall"), WordI("Gate"),
                                                     WordI("Court"),
                                                     WordI("Square"),
                                                     WordI("Close")>>),
                                               Opt(Cls({"."}))>>)),
                                     Star(Cat(<<Plus(Cls(WhitespaceChars)),
                                                Cls(Fold(Range("A", "Z"))),
                                                Plus(Cls(Fold(Range("a", "z"))))>>)),
                                     Opt(Cat(<<Plus(Cls(WhitespaceChars)),
                                               Rep(Cls(Fold(Range("A", "Z"))), 2, 2),
                                               Star(Cls(WhitespaceChars)),
                                               Rep(Cls(DigitSet), 5, 5)>>))>>))]

RECURSIVE PhoneLoop(_, _, _, _)
\* the loop of phonePattern; a number is seen as
\* phoneMatch[0].replace(/[^\d]/g, '')
PhoneLoop(phones, i, seen, phoneNumbers) ==
    LET Digits(number) == SelectSeq(number, LAMBDA c : c \in DigitSet)
    IN  IF i > Len(phones) THEN phoneNumbers
        ELSE IF Digits(phones[i].group[0]) \in seen
             THEN PhoneLoop(phones, i + 1, seen, phoneNumbers)
             ELSE PhoneLoop(phones, i + 1, seen \cup {Digits(phones[i].group[0])},
                            Append(phoneNumbers,
                                   [number |-> phones[i].group[0],
                                    confidence |-> 90]))

RECURSIVE EmailLoop(_, _, _, _)
EmailLoop(mails, i, seen, emails) ==
    IF i > Len(mails) THEN emails
    ELSE IF mails[i].group[0] \in seen THEN EmailLoop(mails, i + 1, seen, emails)
    ELSE EmailLoop(mails, i + 1, seen \cup {mails[i].group[0]},
                   Append(emails, [email |-> mails[i].group[0], confidence |-> 95]))

RECURSIVE AddressLoop(_, _, _, _)
AddressLoop(places, i, seen, addresses) ==
    LET Added(addr) ==
            IF addr \notin seen /\ Len(addr) > 5
            THEN AddressLoop(places, i + 1, seen \cup {addr},
                             Append(addresses, [address |-> addr, confidence |-> 75]))
            ELSE AddressLoop(places, i + 1, seen, addresses)
    IN  IF i > Len(places) THEN addresses
        ELSE Added(Trim(places[i].group[0]))

\* the phone numbers, emails and addresses of extractAllData
Contacts(text, patterns) ==
    [phoneNumbers |-> PhoneLoop(ReFindAll(patterns.phonePattern, text, 1), 1, {}, <<>>),
     emails |-> EmailLoop(ReFindAll(patterns.emailPattern, text, 1), 1, {}, <<>>),
     addresses |-> AddressLoop(ReFindAll(patterns.addressPattern, text, 1), 1, {}, <<>>)]

\* the lists extractAllData returns; allFieldsFound holds their lengths
ExtractAllData(text, currentYear, strict) ==
    [dates |-> ExtractDates(text, currentYear, strict),
     amounts |-> ExtractAmounts(text),
     names |-> ExtractNames(text)]
        @@ Contacts(text, ContactPatterns)
-----------------------------------------------------------------------------
(* The extractors applied to a text *)

\* new Date().getFullYear() at the time of the call
CurrentYears == {2024, 2026}

\* extractDates on each token d1/d2/yyyy, and on sample texts
DatesInputs ==
    LET DateFirsts == {Text("5"), Text("05"), Text("12"), Text("13"), Text("31"),
                       Text("32")}
        DateSeconds == {Text("2"), Text("02"), Text("04"), Text("12"), Text("13")}
        DateYears == {Text("1899"), Text("2024"), Text("2025"), Text("2101")}
        NumericDate(parts) ==
            parts.first \o <<"/">> \o parts.second \o <<"/">> \o parts.year
        DateSamples ==
            {Text("30.02.2025"),
             Text("31-04-2025"),
             Text("2025-02-30"),
             Text("2024-02-29"),
             Text("13/05/25"),
             Text("29/02"),
             Text("31/04"),
             Text("30 Feb 2025"),
             Text("Feb 30, 2025"),
             Text("Sept 7, 2025"),
             Text("7 Sep 2025 07/09/2025"),
             Text("Due 1/2/2025 or 2025-02-01"),
             Text("1/2 then 03.04.2025")}
    IN  {[extractor |-> "dates", text |-> NumericDate(parts), parts |-> parts,
          currentYear |-> y, strict |-> strict] :
            parts \in [first : DateFirsts, second : DateSeconds, year : DateYears],
            y \in CurrentYears, strict \in BOOLEAN}
        \cup
        {[extractor |-> "dates", text |-> text, parts |-> Null,
          currentYear |-> y, strict |-> strict] :
            text \in DateSamples, y \in CurrentYears, strict \in BOOLEAN}

\* extractAmounts of either revision on one amount, or two with a blank
\* between them
AmountsInputs ==
    LET AmountTokens ==
            {Text("$50.00"),
             Text("1000"),
             Text("Total: $123"),
             Text("1,234.56"),
             Text("$1234.56"),
             Text("100.00"),
             Text("USD 75.5"),
             Text("$0.00"),
             Text("S100"),
             Text("$1oo.oo"),
             Text("due 99")}
        AmountTexts ==
            AmountTokens
                \cup {a \o <<" ">> \o b : a \in AmountTokens, b \in AmountTokens}
    IN  {[extractor |-> "amounts", text |-> text, revision |-> revision] :
            text \in AmountTexts, revision \in Revisions}

NamesInputs ==
    {[extractor |-> "names", text |-> text] :
        text \in
            {Text("Staff: Mike Rodriguez"),
             Text("staff: mike rodriguez\nSTAFF: MIKE RODRIGUEZ"),
             Text("Invoice from Emily Chen\nMr. John Smith"),
             Text("Property: 12 Main St, Unit 4"),
             Text("Cleaner: Emily Chen\nContractor: Mike Rodriguez\nemily chen"),
             Text("Total Amount Due"),
             Text("Performed by Sl00 Park"),
             Text("Address: 12 Main St\n12 main st"),
             Text("Completed by Mike Rodriguez for Emily Chen at 7 Oak Ave.")}}

AllDataInputs ==
    {[extractor |-> "all", text |-> text, currentYear |-> y, strict |-> strict] :
        text \in
            {Text("Bob@Example.com bob@example.com"),
             Text("12 Main St\n12 main st"),
             Text("555-123-4567 555.123.4567 +1-555-123-4567"),
             Text("Invoice from Mike Rodriguez\nDate: 13/05/2025\nTotal: $150.00\nProperty: 12 Main St\nmike@acme.com 555-123-4567"),
             Text("Staff: Emily Chen 05/06/2025 $75.50 and 1000\nemily@acme.com EMILY@ACME.COM"),
             Text("a.b@c.io 30/02/2025 S100 12 Oak Avenue NY 10001"),
             Text("nothing here")},
        y \in CurrentYears, strict \in BOOLEAN}

ExtractorInputs == DatesInputs \cup AmountsInputs \cup NamesInputs \cup AllDataInputs

InitExtract ==
    /\ extractedData = Null
    /\ tasks = Undefined
    /\ bestMatch = Null
    /\ matchResult = NotCalled
    /\ ocr = OcrIdle
    /\ correction = Idle
    /\ pipeline = Idle
    /\ ServiceIdle
    /\ \E input \in ExtractorInputs :
          extraction = [pc |-> "text", input |-> input,
                        candidates |-> [dates |-> <<>>, amounts |-> <<>>,
                                        names |-> <<>>, phoneNumbers |-> <<>>,
                                        emails |-> <<>>, addresses |-> <<>>]]

\* extractDates(text)
RunExtractDates ==
    /\ extraction.pc = "text"
    /\ extraction.input.extractor = "dates"
    /\ extraction' = [extraction EXCEPT
                         !.pc = "done",
                         !.candidates.dates =
                             ExtractDates(extraction.input.text,
                                          extraction.input.currentYear,
                                          extraction.input.strict)]
    /\ UNCHANGED <<serviceVars, matchVars, ocr, correction, pipeline>>

\* extractAmounts(text)
RunExtractAmounts ==
    /\ extraction.pc = "text"
    /\ extraction.input.extractor = "amounts"
    /\ extraction' = [extraction EXCEPT
                         !.pc = "done",
                         !.candidates.amounts =
                             IF extraction.input.revision = Part006
                             THEN ExtractAmounts(extraction.input.text)
                             ELSE OcrUtilsExtractAmounts(extraction.input.text)]
    /\ UNCHANGED <<serviceVars, matchVars, ocr, correction, pipeline>>

\* extractNames(text)
RunExtractNames ==
    /\ extraction.pc = "text"
    /\ extraction.input.extractor = "names"
    /\ extraction' = [extraction EXCEPT
                         !.pc = "done",
                         !.candidates.names = ExtractNames(extraction.input.text)]
    /\ UNCHANGED <<serviceVars, matchVars, ocr, correction, pipeline>>

\* extractAllData(text)
RunExtractAllData ==
    /\ extraction.pc = "text"
    /\ extraction.input.extractor = "all"
    /\ extraction' = [extraction EXCEPT
                         !.pc = "done",
                         !.candidates =
                             ExtractAllData(extraction.input.text,
                                            extraction.input.currentYear,
                                            extraction.input.strict)]
    /\ UNCHANGED <<serviceVars, matchVars, ocr, correction, pipeline>>

NextExtract ==
    \/ RunExtractDates
    \/ RunExtractAmounts
    \/ RunExtractNames
    \/ RunExtractAllData

SpecExtract == InitExtract /\ [][NextExtract]_vars

-----------------------------------------------------------------------------
(* Properties of the extractors *)

Extracted(extractor) ==
    extraction.pc = "done" /\ extraction.input.extractor = extractor

\* a d1/d2/yyyy token went through extractDates
NumericDateExtracted == Extracted("dates") /\ extraction.input.parts # Null

DateFirst == CharsToNat(extraction.input.parts.first)

DateSecond == CharsToNat(extraction.input.parts.second)

DateYear == CharsToNat(extraction.input.parts.year)

\* the year, month and day an ISO date string states
IsoYear(isoDate) == CharsToNat(SubSeq(isoDate, 1, 4))

IsoMonth(isoDate) == CharsToNat(SubSeq(isoDate, 6, 7))

IsoDay(isoDate) == CharsToNat(SubSeq(isoDate, 9, 10))

\* the candidate reads d1 as the day and d2 as the month
DayFirstReading(candidate) ==
    /\ IsoDay(candidate.isoDate) = DateFirst
    /\ IsoMonth(candidate.isoDate) = DateSecond
    /\ IsoYear(candidate.isoDate) = DateYear

\* d1.d2.yyyy is a day of the calendar, in the range of years accepted
RealDate(day, month, year) ==
    /\ month \in 1..12
    /\ year \in 1900..2100
    /\ day \in 1..DaysInMonth(month, year)

\* C13: a token d1/d2/yyyy with d1 > 12 yields candidates that read d1 as the
\* day and d2 as the month only, never more than one, and exactly one when
\* d1/d2/yyyy is a date
C13_DayFirstAbove12 ==
    NumericDateExtracted /\ DateFirst > 12 =>
        /\ \A i \in 1..Len(extraction.candidates.dates) :
              DayFirstReading(extraction.candidates.dates[i])
        /\ Len(extraction.candidates.dates) <= 1
        /\ RealDate(DateFirst, DateSecond, DateYear) => Len(extraction.candidates.dates) = 1

C13_Witness ==
    /\ NumericDateExtracted
    /\ extraction.input.text = Text("13/04/2025")
    /\ Len(extraction.candidates.dates) = 1
    /\ extraction.candidates.dates[1].isoDate = Text("2025-04-13")

\* C14: a token d1/d2/yyyy with d1 <= 12 yields candidates that read d1 as the
\* day and d2 as the month only; none reads d1 as the month
C14_DayFirstUpTo12 ==
    NumericDateExtracted /\ DateFirst <= 12 =>
        \A i \in 1..Len(extraction.candidates.dates) :
            DayFirstReading(extraction.candidates.dates[i])

\* C15: every date candidate has month 1..12, day 1..31, year 1900..2100 and
\* its day exists in that month of that year
C15_RealCalendarDate ==
    Extracted("dates") =>
        \A i \in 1..Len(extraction.candidates.dates) :
            /\ IsoDay(extraction.candidates.dates[i].isoDate) \in 1..31
            /\ RealDate(IsoDay(extraction.candidates.dates[i].isoDate),
                        IsoMonth(extraction.candidates.dates[i].isoDate),
                        IsoYear(extraction.candidates.dates[i].isoDate))

ExtractionDone == extraction.pc = "done"

\* candidates[i].confidence >= candidates[i+1].confidence for all i
ConfidenceOrdered(candidates) ==
    \A i \in 1..(Len(candidates) - 1) :
        candidates[i].confidence >= candidates[i + 1].confidence

\* C16: every candidate list an extractor returns is ordered by
\* non-increasing confidence
C16_ConfidenceOrdered ==
    ExtractionDone =>
        /\ ConfidenceOrdered(extraction.candidates.dates)
        /\ ConfidenceOrdered(extraction.candidates.amounts)
        /\ ConfidenceOrdered(extraction.candidates.names)
        /\ ConfidenceOrdered(extraction.candidates.emails)
        /\ ConfidenceOrdered(extraction.candidates.phoneNumbers)
        /\ ConfidenceOrdered(extraction.candidates.addresses)

\* no two entries of a list of normalized values are the same
AllDistinct(values) ==
    \A i, j \in 1..Len(values) : i # j => values[i] # values[j]

DigitsOf(s) == SelectSeq(s, LAMBDA c : c \in DigitSet)

\* C17: no candidate list holds two candidates with the same normalized value:
\* dates by ISO date, amounts by two-decimal value, phone numbers by their
\* digits, and names, emails and addresses without regard to letter case
C17_NoDuplicates ==
    ExtractionDone =>
        LET c == extraction.candidates
        IN  /\ AllDistinct([i \in 1..Len(c.dates) |-> c.dates[i].isoDate])
            /\ AllDistinct([i \in 1..Len(c.amounts) |-> ToFixed2(c.amounts[i].amount)])
            /\ AllDistinct([i \in 1..Len(c.names) |-> ToLowerCase(c.names[i].name)])
            /\ AllDistinct([i \in 1..Len(c.emails) |-> ToLowerCase(c.emails[i].email)])
            /\ AllDistinct([i \in 1..Len(c.phoneNumbers) |->
                               DigitsOf(c.phoneNumbers[i].number)])
            /\ AllDistinct([i \in 1..Len(c.addresses) |->
                               ToLowerCase(c.addresses[i].address)])

-----------------------------------------------------------------------------
(* extractInvoiceDataWithAI and enhancedBasicExtraction *)

\* !v for the values a reply or a candidate can hold
Falsy(v) == v \in {Undefined, Null, Str(<<>>), Num(0)}

\* the candidate the heuristics give for each field, undefined when there is
\* none: names.find(n => n.type === type), amounts[0].amount, dates[0].isoDate
Candidates(enhancedResults) ==
    LET FindOfType(names, type) ==
            IF \E i \in 1..Len(names) : names[i].type = type
            THEN LET first == CHOOSE i \in 1..Len(names) :
                                  /\ names[i].type = type
                                  /\ \A j \in 1..(i - 1) : names[j].type # type
                 IN  Str(names[first].name)
            ELSE Undefined
    IN  [staffName |-> FindOfType(enhancedResults.names, "staff"),
         totalAmount |-> IF Len(enhancedResults.amounts) > 0
                         THEN Num(enhancedResults.amounts[1].amount) ELSE Undefined,
         date |-> IF Len(enhancedResults.dates) > 0
                  THEN Str(enhancedResults.dates[1].isoDate) ELSE Undefined,
         propertyName |-> FindOfType(enhancedResults.names, "property")]

\* a fill-in that lets the heuristic candidate win
FillInAlways(value, candidate) == IF candidate # Undefined THEN candidate ELSE value

\* if (!value && candidate) value = candidate
FillIn(value, candidate) ==
    IF Falsy(value) /\ candidate # Undefined THEN candidate ELSE value

\* text.substring(0, 500)
RawTextLimit == 500

InvoiceData(staffName, totalAmount, date, propertyName, lineItems, text) ==
    [staffName |-> staffName, totalAmount |-> totalAmount, date |-> date,
     propertyName |-> propertyName, lineItems |-> lineItems,
     rawText |-> SubSeq(text, 1, Min(RawTextLimit, Len(text))),
     rawTextFull |-> text]

\* the patterns of enhancedBasicExtraction's fallback
BasicPatterns ==
    \* /\$?\s*(\d{1,3}(?:,\d{3})*(?:\.\d{2})?)/
    [amount |-> Cat(<<Opt(Cls({"$"})), Star(Cls(WhitespaceChars)),
                      Grp(1, Cat(<<Rep(Cls(DigitSet), 1, 3),
                                   Star(Cat(<<Cls({","}),
                                              Rep(Cls(DigitSet), 3, 3)>>)),
                                   Opt(Cat(<<Cls({"."}),
                                             Rep(Cls(DigitSet), 2, 2)>>))>>))>>),
     \* /(\d{1,2}[\/\-.\s]\d{1,2}[\/\-.\s]?\d{0,4})/
     date |-> Grp(1, Cat(<<Rep(Cls(DigitSet), 1, 2),
                           Cls({"/", "-", "."} \cup WhitespaceChars),
                           Rep(Cls(DigitSet), 1, 2),
                           Opt(Cls({"/", "-", "."} \cup WhitespaceChars)),
                           Rep(Cls(DigitSet), 0, 4)>>))]

\* an extraction that never takes a name from the candidates
EnhancedBasicExtractionNoNames(text, enhancedResults) ==
    LET AnyOrNull(v) == IF v = Undefined THEN Null ELSE v
    IN  InvoiceData(Null,
                    IF enhancedResults = Null THEN Null
                    ELSE AnyOrNull(Candidates(enhancedResults).totalAmount),
                    IF enhancedResults = Null THEN Null
                    ELSE AnyOrNull(Candidates(enhancedResults).date),
                    Null, Arr(<<>>), text)

EnhancedBasicExtraction(text, enhancedResults) ==
    LET \* a field stays null when there is no candidate for it
        AnyOrNull(v) == IF v = Undefined THEN Null ELSE v
        FromCandidates(candidates) ==
            InvoiceData(AnyOrNull(candidates.staffName),
                        AnyOrNull(candidates.totalAmount),
                        AnyOrNull(candidates.date),
                        AnyOrNull(candidates.propertyName),
                        Arr(<<>>), text)
        \* s.replace(',', ''): the first comma only
        WithoutFirstComma(s) ==
            IF \E i \in 1..Len(s) : s[i] = ","
            THEN LET first == CHOOSE i \in 1..Len(s) :
                                  s[i] = "," /\ \A j \in 1..(i - 1) : s[j] # ","
                 IN  SubSeq(s, 1, first - 1) \o SubSeq(s, first + 1, Len(s))
            ELSE s
        \* the longest prefix parseFloat reads: digits and one point
        NumericPrefix(s) ==
            LET stops == {i \in 1..Len(s) :
                             \/ s[i] \notin DigitSet \cup {"."}
                             \/ s[i] = "." /\ \E j \in 1..(i - 1) : s[j] = "."}
                stop == IF stops = {} THEN Len(s) + 1
                        ELSE CHOOSE i \in stops : \A j \in stops : i <= j
            IN  SubSeq(s, 1, stop - 1)
        \* the fallback, on what text.match(pattern) gives for the two
        \* patterns, which have no g flag
        Basic(amountMatch, dateMatch) ==
            InvoiceData(Null,
                        IF amountMatch # <<>>
                        THEN Num(ParseFloat(NumericPrefix(WithoutFirstComma(
                                                amountMatch[1].group[1]))))
                        ELSE Null,
                        IF dateMatch # <<>> THEN Str(dateMatch[1].group[1]) ELSE Null,
                        Null, Arr(<<>>), text)
        Fallback(patterns) ==
            Basic(ReFindAll(patterns.amount, text, 1),
                  ReFindAll(patterns.date, text, 1))
    IN  IF enhancedResults # Null THEN FromCandidates(Candidates(enhancedResults))
        ELSE Fallback(BasicPatterns)

\* a JSON object of the reply; it holds Undefined for a key it lacks
JsonObject(staffName, totalAmount, date, propertyName, lineItems) ==
    [t |-> "object", staffName |-> staffName, totalAmount |-> totalAmount,
     date |-> date, propertyName |-> propertyName, lineItems |-> lineItems]

\* JSON.parse(content || '{}').  The content of the message is null, a text
\* JSON.parse rejects, or the text of a JSON value, held as the value it
\* parses to.
JsonParse(content) ==
    IF content = Null
    THEN JsonObject(Undefined, Undefined, Undefined, Undefined, Undefined)
    ELSE IF content.json = "malformed" THEN Raised("SyntaxError")
         ELSE content.value

IsRaised(v) == "raised" \in DOMAIN v

\* extractInvoiceDataWithAI(text, enhancedResults) for one outcome of the
\* chat completion: there is no API key, the call threw, or it replied
ExtractInvoiceDataWithAI(text, enhancedResults, outcome) ==
    LET \* v || null
        OrNull(v) == IF Falsy(v) THEN Null ELSE v
        \* typeof v === 'number' ? v : null
        NumberOrNull(v) == IF v.t = "number" THEN v ELSE Null
        \* if (totalAmount === null && amounts.length > 0)
        \*     totalAmount = amounts[0].amount
        FillInAmount(value, candidate) ==
            IF value = Null /\ candidate # Undefined THEN candidate ELSE value
        \* the try block from JSON.parse on: reading a field of a reply that
        \* is the JSON value null is a TypeError
        FromReply(result) ==
            IF result = Null THEN Raised("TypeError")
            ELSE LET staffName == OrNull(result.staffName)
                     totalAmount == NumberOrNull(result.totalAmount)
                     date == OrNull(result.date)
                     propertyName == OrNull(result.propertyName)
                     lineItems == IF Falsy(result.lineItems) THEN Arr(<<>>)
                                  ELSE result.lineItems
                 IN  IF enhancedResults # Null
                     THEN InvoiceData(
                              FillIn(staffName, Candidates(enhancedResults).staffName),
                              FillInAmount(totalAmount,
                                           Candidates(enhancedResults).totalAmount),
                              FillIn(date, Candidates(enhancedResults).date),
                              FillIn(propertyName,
                                     Candidates(enhancedResults).propertyName),
                              lineItems, text)
                     ELSE InvoiceData(staffName, totalAmount, date, propertyName,
                                      lineItems, text)
        result == JsonParse(outcome.content)
        data == IF IsRaised(result) THEN result ELSE FromReply(result)
        \* there is no API key, or the catch block is reached
        fallsBack == outcome.kind = "noKey" \/ outcome.kind = "threw" \/ IsRaised(data)
    IN  IF fallsBack THEN EnhancedBasicExtraction(text, enhancedResults) ELSE data

-----------------------------------------------------------------------------
(* POST /api/files/:fileId/process *)

\* the types the upload filter lets into uploadedFiles
allowedTypes ==
    {Text("application/pdf"), Text("application/msword"),
     Text("application/vnd.openxmlformats-officedocument.wordprocessingml.document"),
     Text("image/png"), Text("image/jpeg"), Text("image/gif"), Text("text/plain")}

\* the branch the if-chain of the endpoint takes
Branch(mimeType) ==
    LET StartsWith(s, prefix) ==
            Len(s) >= Len(prefix) /\ SubSeq(s, 1, Len(prefix)) = prefix
    IN  IF mimeType = Text("application/pdf") THEN "pdf"
        ELSE IF Includes(mimeType, Text("word"))
                    \/ mimeType = Text("application/msword") THEN "word"
        ELSE IF StartsWith(mimeType, Text("image/")) THEN "image"
        ELSE IF mimeType = Text("text/plain") THEN "text"
        ELSE "none"

PdfConfidence == 95

TextConfidence == 100

\* a file of uploadedFiles, with the text the PDF parser, mammoth, the OCR or
\* readFileSync returns for it
UploadedFiles ==
    {[mimeType |-> m, source |-> s, currentYear |-> y, strict |-> strict] :
        m \in allowedTypes,
        s \in {<<>>,
               Text("nothing here"),
               Text("By: Mike Rodriguez\n13/05/2025 $150.00\nUnit: 12 Main St"),
               Text("Staff: Emily Chen\n29/02 S75.50"),
               Text("Amount due: $\nIvan Olsen")},
        y \in CurrentYears, strict \in BOOLEAN}

\* what the chat completion can come to
Outcomes ==
    LET ReplyNames == {Undefined, Null, Str(<<>>), Str(MikeRodriguez)}
        ReplyAmounts == {Null, Num(0), Num(150000), Str(Text("150"))}
        ReplyDates == {Null, Str(<<>>), Str(Text("2025-05-14"))}
        ReplyProperties == {Null, Str(Text("Unit 4"))}
        Json(value) == [json |-> "value", value |-> value]
        Contents ==
            {Null, [json |-> "malformed"], Json(Null),
             Json(JsonObject(Undefined, Undefined, Undefined, Undefined, Undefined))}
            \cup {Json(JsonObject(n, a, d, p, Arr(<<>>))) :
                     n \in ReplyNames, a \in ReplyAmounts, d \in ReplyDates,
                     p \in ReplyProperties}
    IN  {[kind |-> "noKey"], [kind |-> "threw"]}
            \cup {[kind |-> "replied", content |-> c] : c \in Contents}

\* `tasks` of the request body
RequestTasks ==
    {Undefined, Arr(<<>>),
     Arr(<<[Staff |-> Arr(<<MikeRodriguez>>), Amount |-> Num(150000)],
           [Staff |-> Arr(<<EmilyChen>>), Amount |-> Num(75500)]>>)}

InitProcess ==
    /\ extractedData = Null
    /\ tasks = Undefined
    /\ bestMatch = Null
    /\ matchResult = NotCalled
    /\ ocr = OcrIdle
    /\ correction = Idle
    /\ extraction = Idle
    /\ ServiceIdle
    /\ \E file \in {Undefined} \cup UploadedFiles :
          pipeline = [pc |-> "request", file |-> file, textContent |-> <<>>,
                      namesText |-> Null, enhancedResults |-> Null,
                      outcome |-> Null, stored |-> Null, response |-> Null]

processVars == <<ocr, correction, extraction>>

\* uploadedFiles.get(fileId) finds nothing
FileNotFound ==
    /\ pipeline.pc = "request"
    /\ pipeline.file = Undefined
    /\ pipeline' = [pipeline EXCEPT !.pc = "responded",
                                    !.response = [status |-> 404]]
    /\ UNCHANGED <<serviceVars, matchVars, processVars>>

\* the request once the text is read: textContent, the text extractNames was
\* called on, and enhancedResults
Read(textContent, namesText, enhancedResults) ==
    [pipeline EXCEPT !.pc = "read",
                     !.textContent = textContent,
                     !.namesText = Str(namesText),
                     !.enhancedResults = enhancedResults]

\* extractDates, extractAmounts and extractNames, all three on the corrected
\* text
TextRead(textContent, file, confidence) ==
    Read(textContent, textContent,
         [dates |-> ExtractDates(textContent, file.currentYear, file.strict),
          amounts |-> ExtractAmounts(textContent),
          names |-> ExtractNames(textContent),
          ocrConfidence |-> confidence])

\* the branches for PDF, Word and plain text: read, correct, then extract
ReadText(branch, confidence) ==
    /\ pipeline.pc = "request"
    /\ pipeline.file # Undefined
    /\ Branch(pipeline.file.mimeType) = branch
    /\ pipeline' = TextRead(ApplyCharacterCorrections(pipeline.file.source),
                            pipeline.file, confidence)
    /\ UNCHANGED <<serviceVars, matchVars, processVars>>

ReadPdf == ReadText("pdf", PdfConfidence)

ReadWord == ReadText("word", PdfConfidence)

ReadPlainText == ReadText("text", TextConfidence)

\* what enhancedExtractFromImage returns once the text is corrected;
\* namesText is the argument of its call of extractNames
EnhancedResult(file, rawText, correctedText, confidence) ==
    [rawText |-> rawText,
     correctedText |-> correctedText,
     dates |-> ExtractDates(correctedText, file.currentYear, file.strict),
     amounts |-> ExtractAmounts(correctedText),
     names |-> ExtractNames(rawText),
     ocrConfidence |-> confidence,
     namesText |-> rawText]

\* enhancedExtractFromImage from the corrector on, with rawText the text the
\* OCR ended with
EnhancedExtraction(file, rawText, confidence) ==
    EnhancedResult(file, rawText, ApplyCharacterCorrections(rawText), confidence)

\* textContent = ocrResult.correctedText and enhancedResults of the image
\* branch
ImageRead(ocrResult) ==
    Read(ocrResult.correctedText, ocrResult.namesText,
         [dates |-> ocrResult.dates,
          amounts |-> ocrResult.amounts,
          names |-> ocrResult.names,
          ocrConfidence |-> ocrResult.ocrConfidence])

\* the image branch: enhancedExtractFromImage returned
ReadImage ==
    /\ pipeline.pc = "request"
    /\ pipeline.file # Undefined
    /\ Branch(pipeline.file.mimeType) = "image"
    /\ \E confidence \in {VISION_FALLBACK_THRESHOLD, VisionConfidence} :
          pipeline' = ImageRead(EnhancedExtraction(pipeline.file,
                                                   pipeline.file.source, confidence))
    /\ UNCHANGED <<serviceVars, matchVars, processVars>>

\* reading the file, the parser or the OCR threw: the catch of the endpoint
\* answers 500
ReadFails ==
    /\ pipeline.pc = "request"
    /\ pipeline.file # Undefined
    /\ pipeline' = [pipeline EXCEPT !.pc = "responded",
                                    !.response = [status |-> 500]]
    /\ UNCHANGED <<serviceVars, matchVars, processVars>>

\* const extractedData = await extractInvoiceDataWithAI(textContent, enhancedResults)
ExtractData ==
    /\ pipeline.pc = "read"
    /\ \E outcome \in Outcomes :
          /\ pipeline' = [pipeline EXCEPT !.pc = "extracted", !.outcome = outcome]
          /\ extractedData' = ExtractInvoiceDataWithAI(pipeline.textContent,
                                                       pipeline.enhancedResults,
                                                       outcome)
    /\ UNCHANGED <<serviceVars, tasks, bestMatch, matchResult, processVars>>

\* matchInvoiceWithTasks, uploadedFiles.set and res.json, with the task list
\* the request body holds read where it is used; an error of the matcher goes
\* to the catch of the endpoint
Reconcile ==
    /\ pipeline.pc = "extracted"
    /\ \E requested \in RequestTasks :
          LET out == MatchOutcome(extractedData, requested)
          IN  /\ tasks' = requested
              /\ bestMatch' = out.best
              /\ matchResult' = out.result
              /\ IF IsRaised(out.result)
                 THEN pipeline' = [pipeline EXCEPT !.pc = "responded",
                                                   !.response = [status |-> 500]]
                 ELSE LET updatedFile ==
                              [mimeType |-> pipeline.file.mimeType,
                               extractedData |-> extractedData,
                               matchStatus |-> out.result.status,
                               matchedStaffName |-> out.result.matchedStaffName,
                               matchDetails |-> out.result.details]
                      IN  pipeline' = [pipeline EXCEPT
                                          !.pc = "responded",
                                          !.stored = updatedFile,
                                          !.response = [status |-> 200,
                                                        body |-> updatedFile]]
    /\ UNCHANGED <<serviceVars, extractedData, processVars>>

NextProcess ==
    \/ FileNotFound
    \/ ReadPdf
    \/ ReadWord
    \/ ReadPlainText
    \/ ReadImage
    \/ ReadFails
    \/ ExtractData
    \/ Reconcile

SpecProcess == InitProcess /\ [][NextProcess]_vars

-----------------------------------------------------------------------------
(* Properties of the process endpoint *)

\* the endpoint has built enhancedResults, and so has called extractNames
NamesExtracted == pipeline.enhancedResults # Null

\* the text as the parser, mammoth, the OCR or readFileSync returned it
SourceText == pipeline.file.source

\* C18: on every path of the endpoint (PDF, Word, image, plain text) the text
\* handed to extractNames is the text as it was read, not the text
\* applyCharacterCorrections made of it.
C18_NamesOnRawText ==
    NamesExtracted => pipeline.namesText = Str(SourceText)

\* extractInvoiceDataWithAI has returned
DataExtracted == pipeline.outcome # Null

\* the chat completion answered with a JSON object, the empty one included
AIReplied ==
    /\ DataExtracted
    /\ pipeline.outcome.kind = "replied"
    /\ ~IsRaised(JsonParse(pipeline.outcome.content))
    /\ JsonParse(pipeline.outcome.content) # Null

AIResult == JsonParse(pipeline.outcome.content)

ScalarFields == {"staffName", "totalAmount", "date", "propertyName"}

\* the top-ranked candidate of the type of a field, null when there is none
TopCandidate(field) ==
    LET results == pipeline.enhancedResults
        staff == {i \in 1..Len(results.names) : results.names[i].type = "staff"}
        property == {i \in 1..Len(results.names) : results.names[i].type = "property"}
        least(indices) == CHOOSE i \in indices : \A j \in indices : i <= j
    IN  CASE field = "staffName" ->
                 IF staff = {} THEN Null ELSE Str(results.names[least(staff)].name)
          [] field = "totalAmount" ->
                 IF results.amounts = <<>> THEN Null
                 ELSE Num(results.amounts[1].amount)
          [] field = "date" ->
                 IF results.dates = <<>> THEN Null
                 ELSE Str(results.dates[1].isoDate)
          [] field = "propertyName" ->
                 IF property = {} THEN Null
                 ELSE Str(results.names[least(property)].name)

\* a value the AI gave for a field
NonNull(value) == value \notin {Null, Undefined}

\* a value of the AI the code takes over: a number for totalAmount, a
\* non-empty string for the other fields
Usable(field, value) ==
    IF field = "totalAmount" THEN value.t = "number"
    ELSE value.t = "string" /\ value.v # <<>>

AIUnavailable ==
    /\ DataExtracted
    /\ \/ pipeline.outcome.kind \in {"noKey", "threw"}
       \/ IsRaised(JsonParse(pipeline.outcome.content))
       \/ JsonParse(pipeline.outcome.content) = Null

\* C20: without an API key, or when the chat completion or the parsing of
\* its reply fails, extractInvoiceDataWithAI raises nothing and returns the
\* heuristic extraction (the top-ranked candidate of each field, null where
\* there is none), and the endpoint goes on to matchInvoiceWithTasks.
C20_DegradesToHeuristics ==
    AIUnavailable =>
        /\ ~IsRaised(extractedData)
        /\ \A field \in ScalarFields : extractedData[field] = TopCandidate(field)
        /\ extractedData.lineItems = Arr(<<>>)
        /\ extractedData.rawTextFull = pipeline.textContent
        /\ pipeline.pc = "responded" => matchResult # NotCalled

\* the reply did not parse, the candidates gave Mike Rodriguez and $150.00,
\* and the reconciliation matched them
C20_Witness ==
    /\ AIUnavailable
    /\ pipeline.outcome = [kind |-> "replied", content |-> [json |-> "malformed"]]
    /\ extractedData.staffName = Str(MikeRodriguez)
    /\ extractedData.totalAmount = Num(150000)
    /\ pipeline.pc = "responded"
    /\ pipeline.response.status = 200
    /\ pipeline.stored.matchStatus = "full_match"

-----------------------------------------------------------------------------
(* Preprocessing that fails *)

\* the catch block of preprocessImage / preprocessHandwritten was reached
PreprocessingFailed == ocr.preprocessing = "failed"

\* C21: when image preprocessing fails, the preprocessor returns the original
\* image path and does not raise, the OCR is given the original image, and
\* the original image file is still there when the OCR invocation has ended:
\* the clean-up never deletes the input file.
C21_FailureKeepsOriginal ==
    PreprocessingFailed =>
        /\ ocr.pc # "preprocess"
        /\ ocr.processedPath = Str(ocr.imagePath)
        /\ ocr.recognized \in {Null, Str(ocr.imagePath)}
        /\ OcrEnded => ocr.recognized = Str(ocr.imagePath)
        /\ ocr.imagePath \in ocr.files
        /\ ocr.pc = "raised" => ocr.result = Raised("OCR failed")

C21_Witness ==
    /\ PreprocessingFailed
    /\ OcrDone
    /\ ocr.recognized = Str(ocr.imagePath)
    /\ ocr.imagePath \in ocr.files
    /\ OutputPath(ocr.imagePath, ocr.isHandwritten) # ocr.imagePath

-----------------------------------------------------------------------------
(* The upscale factor of preprocessImage and preprocessHandwritten *)

\* the largest width drawn
MaxDimension == 2100

\* metadata.width and metadata.height: sharp leaves them undefined when the
\* header of the image gives no size
Widths == {Undefined} \cup {Num(n) : n \in 1..MaxDimension}

Heights == {Undefined} \cup {Num(n) : n \in {1, 999, 1000, 1499, 1500, 1999, 2000, 3000}}

\* metadata.width || 1000
OrThousand(dimension) ==
    IF dimension = Undefined \/ dimension = Num(0) THEN 1000 ELSE dimension.v

\* Math.min(metadata.width || 1000, metadata.height || 1000)
MinDimension(metadata) == Min(OrThousand(metadata.width), OrThousand(metadata.height))

\* Math.ceil(a / b) of positive integers
Ceil(a, b) == (a + b - 1) \div b

\* const scaleFactor = ... of the two preprocessors
ScaleFactor(minDimension, isHandwritten) ==
    IF isHandwritten
    THEN (IF minDimension < 1500 THEN Ceil(2000, minDimension) ELSE 1)
    ELSE (IF minDimension < 1000 THEN Ceil(1500, minDimension) ELSE 1)

\* the size handed to .resize(...)
Resized(metadata, scaleFactor) ==
    [width |-> OrThousand(metadata.width) * scaleFactor,
     height |-> OrThousand(metadata.height) * scaleFactor]

InitResize ==
    /\ extractedData = Null
    /\ tasks = Undefined
    /\ bestMatch = Null
    /\ matchResult = NotCalled
    /\ ocr = OcrIdle
    /\ correction = Idle
    /\ extraction = Idle
    /\ pipeline = Idle
    /\ disk = Idle
    /\ invocations = Idle
    /\ storage = Idle
    /\ uploadedFiles = Idle
    /\ requests = Idle
    /\ \E width \in Widths, height \in Heights, isHandwritten \in BOOLEAN :
          image = [pc |-> "metadata",
                   metadata |-> [width |-> width, height |-> height],
                   isHandwritten |-> isHandwritten]

\* what both preprocessors do between image.metadata() and .resize(...)
Resize(isHandwritten) ==
    /\ image.pc = "metadata"
    /\ image.isHandwritten = isHandwritten
    /\ image' = [pc |-> "resized",
                 metadata |-> image.metadata,
                 isHandwritten |-> isHandwritten,
                 resized |-> Resized(image.metadata,
                                     ScaleFactor(MinDimension(image.metadata),
                                                 isHandwritten))]
    /\ UNCHANGED <<matchVars, ocr, textVars, disk, invocations, storage,
                   uploadedFiles, requests>>

\* preprocessImage
ResizePrinted == Resize(FALSE)

\* preprocessHandwritten
ResizeHandwritten == Resize(TRUE)

NextResize ==
    \/ ResizePrinted
    \/ ResizeHandwritten

SpecResize == InitResize /\ [][NextResize]_vars

\* 1500 px with the printed profile and 2000 px with the handwritten one
TargetMinimum(isHandwritten) == IF isHandwritten THEN 2000 ELSE 1500

\* C27: for every input image size the upscale factor makes the shorter
\* dimension of the resized image at least the target minimum, 1500 px with
\* the printed profile and 2000 px with the handwritten profile.
C27_ReachesTargetMinimum ==
    image.pc = "resized" =>
        Min(image.resized.width, image.resized.height)
            >= TargetMinimum(image.isHandwritten)

-----------------------------------------------------------------------------
(* Properties of the ledger and of the verdict's staff name *)

LedgerEntryNames == { Ledger[i].staffName : i \in 1..Len(Ledger) }

\* The tasks of the list that name the staff member, in list order
TasksAssignedTo(name) == SelectSeq(tasks.v, LAMBDA task : TimesAssigned(name, task) > 0)

RECURSIVE SumOfAmounts(_)
SumOfAmounts(taskList) ==
    IF taskList = <<>> THEN 0
    ELSE TaskAmount(Head(taskList)) + SumOfAmounts(Tail(taskList))

MatcherStatuses == {"full_match", "partial_match", "no_match"}

\* C30: a returned verdict has matchedStaffName null exactly when its status
\* is no_match; otherwise the name is that of an entry of the ledger built
\* from the supplied tasks; the status is never pending.
C30_NamedFromLedger ==
    Returned =>
        /\ matchResult.status \in MatcherStatuses
        /\ (matchResult.matchedStaffName = Null) <=> (matchResult.status = "no_match")
        /\ matchResult.status # "no_match" =>
              /\ Matched
              /\ \E i \in 1..Len(Ledger) :
                    matchResult.matchedStaffName = Str(Ledger[i].staffName)

\* a verdict on the amount alone, naming an entry that is not the best name
C30_Witness ==
    /\ Matched
    /\ matchResult.status = "partial_match"
    /\ bestMatch = Null
    /\ matchResult.matchedStaffName.v \in LedgerEntryNames
-----------------------------------------------------------------------------
(* Properties of the standalone-token rule *)

\* A text that is one token of the standalone-token rule and that no earlier
\* rule rewrites: digits and look-alike letters only, the letters in one run
\* with a digit before or after it, and not an S before two or more digits
StandaloneToken(text) ==
    /\ text # <<>>
    /\ \A i \in 1..Len(text) : text[i] \in DigitSet \cup {"o", "S"}
    /\ \E i \in 1..Len(text) : text[i] \in DigitSet
    /\ \A i, j \in 1..Len(text) :
          i < j /\ text[i] \in LetterSet /\ text[j] \in LetterSet
              => \A k \in i..j : text[k] \in LetterSet
    /\ text[Len(text)] \in LetterSet => text[1] \in DigitSet
    /\ ~(text[1] = "S" /\ Len(text) >= 3
                       /\ \A i \in 2..Len(text) : text[i] \in DigitSet)

TokenCorrected ==
    /\ CorrectedOnce
    /\ correction.revision = Part006
    /\ StandaloneToken(correction.text)

\* at least 2 digits, and at least as many digits as letters
DigitsNotFewer(token) ==
    /\ CountIn(token, DigitSet) >= 2
    /\ CountIn(token, DigitSet) >= CountIn(token, LetterSet)

\* at least 2 digits, and more digits than letters
DigitsMore(token) ==
    /\ CountIn(token, DigitSet) >= 2
    /\ CountIn(token, DigitSet) > CountIn(token, LetterSet)

C28_WitnessCorrected ==
    /\ TokenCorrected
    /\ DigitsMore(correction.text)
    /\ correction.once # correction.text
-----------------------------------------------------------------------------
(* Two OCR invocations on one uploaded image, interleaved at their awaits *)

\* a process and a reprocess request of one file
InvocationIds == {"process", "reprocess"}

NoWriter == "nobody"

\* The paths a preprocessor writes for the image
OutputPaths(imagePath) == { OutputPath(imagePath, h) : h \in BOOLEAN }

Invocation(isHandwritten) ==
    [pc |-> "preprocess", isHandwritten |-> isHandwritten, processedPath |-> Null,
     read |-> "pending", result |-> NotCalled]

\* disk.writer[path] is the invocation whose toFile wrote the file at path
\* last, NoWriter when there is no such file; the uploaded image is there
\* throughout
InitArtifacts ==
    /\ extractedData = Null
    /\ tasks = Undefined
    /\ bestMatch = Null
    /\ matchResult = NotCalled
    /\ ocr = OcrIdle
    /\ correction = Idle
    /\ extraction = Idle
    /\ pipeline = Idle
    /\ image = Idle
    /\ storage = Idle
    /\ uploadedFiles = Idle
    /\ requests = Idle
    /\ \E path \in ImagePaths :
          /\ disk = [pc |-> "mounted", imagePath |-> path,
                     writer |-> [p \in OutputPaths(path) \ {path} |-> NoWriter]]
          /\ \E profiles \in [InvocationIds -> BOOLEAN] :
                invocations = [pc |-> "running",
                               of |-> [i \in InvocationIds |-> Invocation(profiles[i])]]

artifactVars == <<disk, invocations>>

Running(i, pc) == invocations.of[i].pc = pc

OutputOf(i) == OutputPath(disk.imagePath, invocations.of[i].isHandwritten)

\* fs.existsSync(path)
ExistsSync(path) ==
    IF path = disk.imagePath THEN TRUE ELSE disk.writer[path] # NoWriter

\* await sharp(inputPath)...toFile(outputPath) of invocation i returned
PreprocessOkIn(i) ==
    /\ Running(i, "preprocess")
    /\ OutputOf(i) # disk.imagePath      \* sharp refuses to write onto its input
    /\ disk' = [disk EXCEPT !.writer[OutputOf(i)] = i]
    /\ invocations' = [invocations EXCEPT !.of[i].pc = "recognize",
                                          !.of[i].processedPath = Str(OutputOf(i))]
    /\ UNCHANGED <<matchVars, ocr, textVars, image, storage, uploadedFiles, requests>>

\* The pipeline of invocation i threw, before or after toFile began to write
PreprocessFailIn(i) ==
    /\ Running(i, "preprocess")
    /\ \E created \in BOOLEAN :
          /\ created => OutputOf(i) # disk.imagePath
          /\ disk' = IF created THEN [disk EXCEPT !.writer[OutputOf(i)] = i] ELSE disk
    /\ invocations' = [invocations EXCEPT !.of[i].pc = "recognize",
                                          !.of[i].processedPath = Str(disk.imagePath)]
    /\ UNCHANGED <<matchVars, ocr, textVars, image, storage, uploadedFiles, requests>>

\* Whose file worker.recognize(path) of invocation i reads
FileRead(i, path) ==
    IF path = disk.imagePath THEN "input"
    ELSE IF disk.writer[path] = i THEN "own" ELSE "other"

\* await worker.recognize(processedPath) returned; worker.terminate() is
\* awaited next
RecognizeOkIn(i) ==
    /\ Running(i, "recognize")
    /\ ExistsSync(invocations.of[i].processedPath.v)
    /\ invocations' = [invocations EXCEPT
                          !.of[i].pc = "terminate",
                          !.of[i].read = FileRead(i, invocations.of[i].processedPath.v)]
    /\ UNCHANGED <<matchVars, ocr, textVars, image, storage, uploadedFiles, requests, disk>>

\* fs.unlinkSync(processedPath) under its guard
Unlinked(path) ==
    IF path # disk.imagePath /\ ExistsSync(path)
    THEN [disk EXCEPT !.writer[path] = NoWriter]
    ELSE disk

\* The worker of invocation i threw, for want of the file or on what it
\* read: the catch block cleans up and rethrows
RecognizeFailIn(i) ==
    /\ Running(i, "recognize")
    /\ LET path == invocations.of[i].processedPath.v
       IN  /\ invocations' = [invocations EXCEPT
                                 !.of[i].pc = "raised",
                                 !.of[i].read = IF ExistsSync(path) THEN FileRead(i, path)
                                                ELSE "missing",
                                 !.of[i].result = Raised("OCR failed")]
           /\ disk' = Unlinked(path)
    /\ UNCHANGED <<matchVars, ocr, textVars, image, storage, uploadedFiles, requests>>

\* worker.terminate() returned: "Clean up processed file" and return
CleanUpIn(i) ==
    /\ Running(i, "terminate")
    /\ disk' = Unlinked(invocations.of[i].processedPath.v)
    /\ invocations' = [invocations EXCEPT !.of[i].pc = "done",
                                          !.of[i].result = [text |-> "read"]]
    /\ UNCHANGED <<matchVars, ocr, textVars, image, storage, uploadedFiles, requests>>

NextArtifacts ==
    \/ \E i \in InvocationIds : PreprocessOkIn(i)
    \/ \E i \in InvocationIds : PreprocessFailIn(i)
    \/ \E i \in InvocationIds : RecognizeOkIn(i)
    \/ \E i \in InvocationIds : RecognizeFailIn(i)
    \/ \E i \in InvocationIds : CleanUpIn(i)

SpecArtifacts == InitArtifacts /\ [][NextArtifacts]_vars

-----------------------------------------------------------------------------
(* Properties of concurrent invocations *)

SameProfile ==
    invocations.of["process"].isHandwritten = invocations.of["reprocess"].isHandwritten

\* invocation i has written its artifact and not yet read it
AwaitsOwnArtifact(i) ==
    /\ Running(i, "recognize")
    /\ invocations.of[i].processedPath # Str(disk.imagePath)

\* C24: when two OCR invocations run on the same image with the same
\* profile, the artifact an invocation has written and not yet read is on the
\* disk as that invocation wrote it, no invocation reads the file of the
\* other, and none fails for want of its artifact.
C24_ArtifactsPrivate ==
    SameProfile =>
        \A i \in InvocationIds :
            /\ AwaitsOwnArtifact(i) => disk.writer[invocations.of[i].processedPath.v] = i
            /\ invocations.of[i].read \notin {"other", "missing"}
-----------------------------------------------------------------------------
(* The settings, login and tasks endpoints over the in-memory storage *)

\* request.fetched is the history of the page requests that succeeded and
\* request.last the has_more and next_page of the latest of them; the code
\* keeps neither.

\* Requests in flight at once
MaxRequests == 2

\* Settings saved in one run
MaxSettings == 2

\* Pages one GET /api/tasks fetches
MaxPages == 3

RequestIds == 1..MaxRequests

\* TaskID values of the upstream tasks
TaskIds == {11, 12}

\* tasksData.data of one page
PageData == { <<>>, <<11>>, <<12, 11>> }

\* tasksData.next_page: absent, or a page number
NextPages == {Undefined, Num(2)}

\* status of a failed upstream call; 0 stands for a failure without a
\* response (network error, or a reply the schema rejects)
UpstreamFailures == {0, 401, 403, 500}

\* The settings of the k-th successful POST /api/settings, with the
\* credentials of that request
Settings(k) == [generation |-> k]

\* The token upstream gives for the credentials of a settings object
TokenFor(settings) == [credentials |-> settings.generation]

NoRequest ==
    [kind |-> "none", pc |-> "new", settings |-> Undefined, accessToken |-> Undefined,
     currentPage |-> 1, fetched |-> <<>>, last |-> Null, allTasks |-> <<>>,
     response |-> NotCalled]

Response(status, error) == [status |-> status, error |-> error]

TasksResponse(allTasks) == [status |-> 200, tasks |-> allTasks, total |-> Len(allTasks)]

InvalidCredentials == "Invalid API credentials. Please update settings."

\* new MemStorage(), and no request received yet
InitApi ==
    /\ extractedData = Null
    /\ tasks = Undefined
    /\ bestMatch = Null
    /\ matchResult = NotCalled
    /\ ocr = OcrIdle
    /\ correction = Idle
    /\ extraction = Idle
    /\ pipeline = Idle
    /\ image = Idle
    /\ disk = Idle
    /\ invocations = Idle
    /\ uploadedFiles = Idle
    /\ storage = [pc |-> "up", settings |-> Undefined, accessToken |-> Undefined,
                  saved |-> 0]
    /\ requests = [pc |-> "serving", settings |-> NotCalled,
                   of |-> [r \in RequestIds |-> NoRequest]]

apiVars == <<storage, requests>>

Request(r) == requests.of[r]

\* The handlers run on one thread: what a handler does between two calls of
\* the upstream API is one step, the awaits on the in-memory storage
\* included.

\* POST /api/settings with a body the schema accepts
SaveSettings ==
    /\ storage.saved < MaxSettings
    /\ storage' = [storage EXCEPT !.settings = Settings(storage.saved + 1),
                                  !.accessToken = Undefined,
                                  !.saved = @ + 1]
    /\ requests' = [requests EXCEPT
                       !.settings = [status |-> 200, body |-> Settings(storage.saved + 1)]]
    /\ UNCHANGED <<matchVars, ocr, textVars, image, disk, invocations, uploadedFiles>>

\* POST /api/settings with a body the schema rejects
RejectSettings ==
    /\ requests.settings # Response(400, "Invalid settings")
    /\ requests' = [requests EXCEPT !.settings = Response(400, "Invalid settings")]
    /\ UNCHANGED <<matchVars, ocr, textVars, image, disk, invocations, uploadedFiles,
                   storage>>

\* POST /api/auth/login, up to its call of /oauth/login
LoginStart(r) ==
    /\ Request(r).pc = "new"
    /\ requests' = [requests EXCEPT !.of[r] =
                       IF storage.settings = Undefined
                       THEN [NoRequest EXCEPT !.kind = "login", !.pc = "done",
                                              !.response = Response(400, InvalidCredentials)]
                       ELSE [NoRequest EXCEPT !.kind = "login", !.pc = "auth",
                                              !.settings = storage.settings]]
    /\ UNCHANGED <<matchVars, ocr, textVars, image, disk, invocations, uploadedFiles,
                   storage>>

\* /oauth/login answered with a token
LoginAuthOk(r) ==
    /\ Request(r).kind = "login"
    /\ Request(r).pc = "auth"
    /\ storage' = [storage EXCEPT !.accessToken = TokenFor(Request(r).settings)]
    /\ requests' = [requests EXCEPT
                       !.of[r].pc = "done",
                       !.of[r].response = [status |-> 200, success |-> TRUE]]
    /\ UNCHANGED <<matchVars, ocr, textVars, image, disk, invocations, uploadedFiles>>

\* the response of the login endpoint to a failed upstream call
LoginFailure(status) ==
    IF status \in {401, 403} THEN Response(401, InvalidCredentials)
    ELSE Response(500, "Authentication failed. Please try again.")

\* /oauth/login failed, or its reply did not parse
LoginAuthFail(r) ==
    /\ Request(r).kind = "login"
    /\ Request(r).pc = "auth"
    /\ storage' = [storage EXCEPT !.accessToken = Undefined]
    /\ \E status \in UpstreamFailures :
          requests' = [requests EXCEPT !.of[r].pc = "done",
                                       !.of[r].response = LoginFailure(status)]
    /\ UNCHANGED <<matchVars, ocr, textVars, image, disk, invocations, uploadedFiles>>

\* GET /api/tasks, up to its first call of the upstream API
TasksStart(r) ==
    /\ Request(r).pc = "new"
    /\ requests' = [requests EXCEPT !.of[r] =
                       IF storage.settings = Undefined
                       THEN [NoRequest EXCEPT !.kind = "tasks", !.pc = "done",
                                              !.response = Response(400, InvalidCredentials)]
                       ELSE [NoRequest EXCEPT
                                !.kind = "tasks",
                                !.pc = IF storage.accessToken = Undefined THEN "auth"
                                       ELSE "page",
                                !.settings = storage.settings,
                                !.accessToken = storage.accessToken]]
    /\ UNCHANGED <<matchVars, ocr, textVars, image, disk, invocations, uploadedFiles,
                   storage>>

\* the auto-authentication got a token
TasksAuthOk(r) ==
    /\ Request(r).kind = "tasks"
    /\ Request(r).pc = "auth"
    /\ storage' = [storage EXCEPT !.accessToken = TokenFor(Request(r).settings)]
    /\ requests' = [requests EXCEPT !.of[r].pc = "page",
                                    !.of[r].accessToken = TokenFor(Request(r).settings)]
    /\ UNCHANGED <<matchVars, ocr, textVars, image, disk, invocations, uploadedFiles>>

\* the auto-authentication failed
TasksAuthFail(r) ==
    /\ Request(r).kind = "tasks"
    /\ Request(r).pc = "auth"
    /\ requests' = [requests EXCEPT !.of[r].pc = "done",
                                    !.of[r].response = Response(401, InvalidCredentials)]
    /\ UNCHANGED <<matchVars, ocr, textVars, image, disk, invocations, uploadedFiles,
                   storage>>

\* Collected keeping the tasks of the last page only
CollectedLast(allTasks, data) == data

\* allTasks.push(...tasksData.data)
Collected(allTasks, data) == allTasks \o data

\* hasMore && tasksData.next_page
Continues(tasksData) ==
    /\ tasksData.has_more
    /\ tasksData.next_page # Undefined
    /\ tasksData.next_page.v # 0

\* one pass of the loop whose page request succeeded
AfterPage(request, tasksData) ==
    IF Continues(tasksData)
    THEN [request EXCEPT
             !.fetched = Append(@, [page |-> request.currentPage,
                                    data |-> tasksData.data]),
             !.last = [has_more |-> tasksData.has_more,
                       next_page |-> tasksData.next_page],
             !.allTasks = Collected(@, tasksData.data),
             !.currentPage = tasksData.next_page.v]
    ELSE [request EXCEPT
             !.fetched = Append(@, [page |-> request.currentPage,
                                    data |-> tasksData.data]),
             !.last = [has_more |-> tasksData.has_more,
                       next_page |-> tasksData.next_page],
             !.allTasks = Collected(@, tasksData.data),
             !.pc = "done",
             !.response = TasksResponse(Collected(request.allTasks, tasksData.data))]

\* GET /tasks answered with a page
PageOk(r) ==
    /\ Request(r).kind = "tasks"
    /\ Request(r).pc = "page"
    /\ \E data \in PageData, more \in BOOLEAN, next \in NextPages :
          LET tasksData == [data |-> data, has_more |-> more, next_page |-> next]
          IN  /\ Continues(tasksData) => Len(Request(r).fetched) + 1 < MaxPages
              /\ requests' = [requests EXCEPT !.of[r] = AfterPage(Request(r), tasksData)]
    /\ UNCHANGED <<matchVars, ocr, textVars, image, disk, invocations, uploadedFiles,
                   storage>>

\* GET /tasks answered 401: the inner catch
PageUnauthorized(r) ==
    /\ Request(r).kind = "tasks"
    /\ Request(r).pc = "page"
    /\ storage' = [storage EXCEPT !.accessToken = Undefined]
    /\ requests' = [requests EXCEPT
                       !.of[r].pc = "done",
                       !.of[r].response = Response(401, "Session expired. Please reconnect.")]
    /\ UNCHANGED <<matchVars, ocr, textVars, image, disk, invocations, uploadedFiles>>

\* GET /tasks failed otherwise, or its reply did not parse: the inner catch
\* rethrows and the outer one answers 500
PageFail(r) ==
    /\ Request(r).kind = "tasks"
    /\ Request(r).pc = "page"
    /\ requests' = [requests EXCEPT
                       !.of[r].pc = "done",
                       !.of[r].response =
                           Response(500, "Error fetching tasks. Please try again.")]
    /\ UNCHANGED <<matchVars, ocr, textVars, image, disk, invocations, uploadedFiles,
                   storage>>

NextApi ==
    \/ SaveSettings
    \/ RejectSettings
    \/ \E r \in RequestIds : LoginStart(r)
    \/ \E r \in RequestIds : LoginAuthOk(r)
    \/ \E r \in RequestIds : LoginAuthFail(r)
    \/ \E r \in RequestIds : TasksStart(r)
    \/ \E r \in RequestIds : TasksAuthOk(r)
    \/ \E r \in RequestIds : TasksAuthFail(r)
    \/ \E r \in RequestIds : PageOk(r)
    \/ \E r \in RequestIds : PageUnauthorized(r)
    \/ \E r \in RequestIds : PageFail(r)

SpecApi == InitApi /\ [][NextApi]_vars
-----------------------------------------------------------------------------
(* Properties of the settings, login and tasks endpoints *)

SettingsSaved == requests.settings # NotCalled /\ requests.settings.status = 200

\* the stored token was obtained with credentials other than the stored ones
StaleToken ==
    /\ storage.accessToken # Undefined
    /\ storage.accessToken.credentials # storage.settings.generation

\* a step in which a POST /api/settings is answered 400
SettingsRejected ==
    /\ requests.settings # Response(400, "Invalid settings")
    /\ requests'.settings = Response(400, "Invalid settings")

\* C23: once a POST /api/settings has succeeded, no access token obtained
\* with the credentials it replaced is stored, however the request
\* interleaves with login and tasks requests in flight; a rejected settings
\* request leaves the stored settings and the stored token unchanged.
C23_TokenOfStoredCredentials ==
    /\ [](SettingsSaved => ~StaleToken)
    /\ [][SettingsRejected => storage' = storage]_vars

Answered(r) == Request(r).response # NotCalled

RECURSIVE TasksOfPages(_)
\* the tasks of the pages of a history, in fetch order
TasksOfPages(fetched) ==
    IF fetched = <<>> THEN <<>>
    ELSE Head(fetched).data \o TasksOfPages(Tail(fetched))

LastPageEnds(request) ==
    /\ request.last # Null
    /\ ~request.last.has_more \/ request.last.next_page = Undefined

\* a step in which a page request of r is answered 401 by upstream
UpstreamUnauthorized(r) ==
    /\ Request(r).pc = "page"
    /\ requests'.of[r].response = Response(401, "Session expired. Please reconnect.")

-----------------------------------------------------------------------------
(* The uploaded-file store under upload, process, delete and list requests *)

\* Files uploaded in one run
MaxFiles == 2

\* Process requests received in one run
MaxProcesses == 2

\* fileId is the time and a random suffix: the k-th upload gets the id k,
\* which no other upload gets
FileIds == 1..MaxFiles

ProcessIds == 1..MaxProcesses

\* mimeType of an upload: read synchronously, or through the awaited OCR
FileTypes == {"text/plain", "image/png"}

\* what extractInvoiceDataWithAI resolves to
FileExtractions ==
    { [staffName |-> Str(MikeRodriguez), totalAmount |-> Num(150000)],
      [staffName |-> Null, totalAmount |-> Null] }

\* req.body.tasks of a process request
FileTasks ==
    { Undefined, Arr(<<>>),
      Arr(<<[Staff |-> Arr(<<MikeRodriguez>>), Amount |-> Num(150000)]>>) }

\* the record POST /api/files/upload stores
NewFile(fileId, mimeType) ==
    [id |-> fileId, mimeType |-> mimeType, extractedData |-> Null,
     matchStatus |-> "pending", matchedStaffName |-> Null, matchDetails |-> Null]

\* UpdatedFile that keeps the matchStatus of the record
UpdatedFileSameStatus(uploadedFile, data, result) ==
    [uploadedFile EXCEPT !.extractedData = data,
                         !.matchedStaffName = result.matchedStaffName,
                         !.matchDetails = result.details]

\* const updatedFile = {...uploadedFile, extractedData, matchStatus, ...}
UpdatedFile(uploadedFile, data, result) ==
    [uploadedFile EXCEPT !.extractedData = data,
                         !.matchStatus = result.status,
                         !.matchedStaffName = result.matchedStaffName,
                         !.matchDetails = result.details]

NoProcess ==
    [pc |-> "new", fileId |-> 0, tasks |-> Undefined, uploadedFile |-> Null,
     response |-> NotCalled]

\* uploadedFiles.files is the Map, uploadedFiles.onDisk the files of the
\* upload directory; requests.deleted holds the ids DELETE has answered
\* success for, and requests.listed the latest answer of GET /api/files
InitFiles ==
    /\ extractedData = Null
    /\ tasks = Undefined
    /\ bestMatch = Null
    /\ matchResult = NotCalled
    /\ ocr = OcrIdle
    /\ correction = Idle
    /\ extraction = Idle
    /\ pipeline = Idle
    /\ image = Idle
    /\ disk = Idle
    /\ invocations = Idle
    /\ storage = Idle
    /\ uploadedFiles = [pc |-> "map", files |-> <<>>, onDisk |-> {}, uploads |-> 0]
    /\ requests = [pc |-> "files", deleted |-> {}, listed |-> NotCalled,
                   of |-> [r \in ProcessIds |-> NoProcess]]

fileVars == <<uploadedFiles, requests>>

Stored(fileId) == fileId \in DOMAIN uploadedFiles.files

\* uploadedFiles.set(fileId, file)
MapSet(files, fileId, file) ==
    [k \in DOMAIN files \cup {fileId} |-> IF k = fileId THEN file ELSE files[k]]

\* uploadedFiles.delete(fileId)
MapDelete(files, fileId) == [k \in DOMAIN files \ {fileId} |-> files[k]]

\* POST /api/files/upload
Upload ==
    /\ uploadedFiles.uploads < MaxFiles
    /\ \E mimeType \in FileTypes :
          LET fileId == uploadedFiles.uploads + 1
          IN  uploadedFiles' =
                  [uploadedFiles EXCEPT
                      !.files = MapSet(@, fileId, NewFile(fileId, mimeType)),
                      !.onDisk = @ \cup {fileId},
                      !.uploads = fileId]
    /\ UNCHANGED <<matchVars, ocr, textVars, image, disk, invocations, storage,
                   requests>>

\* POST /api/files/:fileId/process, up to its first await: the OCR of an
\* image, or extractInvoiceDataWithAI for a text, which is read at once
ProcessStart(r) ==
    /\ requests.of[r].pc = "new"
    /\ \E fileId \in 1..uploadedFiles.uploads, ts \in FileTasks :
          requests' = [requests EXCEPT !.of[r] =
              IF ~Stored(fileId)
              THEN [NoProcess EXCEPT !.pc = "done", !.fileId = fileId, !.tasks = ts,
                                     !.response = Response(404, "File not found")]
              ELSE [NoProcess EXCEPT
                       !.pc = IF uploadedFiles.files[fileId].mimeType = "image/png"
                              THEN "ocr" ELSE "extract",
                       !.fileId = fileId, !.tasks = ts,
                       !.uploadedFile = uploadedFiles.files[fileId]]]
    /\ UNCHANGED <<matchVars, ocr, textVars, image, disk, invocations, storage,
                   uploadedFiles>>

\* enhancedExtractFromImage read the file and returned
OcrReturns(r) ==
    /\ requests.of[r].pc = "ocr"
    /\ requests.of[r].fileId \in uploadedFiles.onDisk
    /\ requests' = [requests EXCEPT !.of[r].pc = "extract"]
    /\ UNCHANGED <<matchVars, ocr, textVars, image, disk, invocations, storage,
                   uploadedFiles>>

\* enhancedExtractFromImage threw, for want of the file or otherwise
OcrThrows(r) ==
    /\ requests.of[r].pc = "ocr"
    /\ requests' = [requests EXCEPT !.of[r].pc = "done",
                                    !.of[r].response = Response(500, "OCR failed")]
    /\ UNCHANGED <<matchVars, ocr, textVars, image, disk, invocations, storage,
                   uploadedFiles>>

\* extractInvoiceDataWithAI returned, and the handler ran to its end
ProcessFinish(r) ==
    /\ requests.of[r].pc = "extract"
    /\ \E data \in FileExtractions :
          LET result  == MatchOutcome(data, requests.of[r].tasks).result
              updated == UpdatedFile(requests.of[r].uploadedFile, data, result)
          IN  IF "raised" \in DOMAIN result
              THEN /\ requests' = [requests EXCEPT
                                      !.of[r].pc = "done",
                                      !.of[r].response = Response(500, result.raised)]
                   /\ UNCHANGED uploadedFiles
              ELSE /\ requests' = [requests EXCEPT
                                      !.of[r].pc = "done",
                                      !.of[r].response = [status |-> 200, body |-> updated]]
                   /\ uploadedFiles' =
                          [uploadedFiles EXCEPT
                              !.files = MapSet(@, requests.of[r].fileId, updated)]
    /\ UNCHANGED <<matchVars, ocr, textVars, image, disk, invocations, storage>>

\* DELETE /api/files/:fileId of a stored file; for any other id the handler
\* answers 404 and changes nothing
Delete ==
    /\ \E fileId \in DOMAIN uploadedFiles.files :
          /\ uploadedFiles' = [uploadedFiles EXCEPT !.files = MapDelete(@, fileId),
                                                    !.onDisk = @ \ {fileId}]
          /\ requests' = [requests EXCEPT !.deleted = @ \cup {fileId}]
    /\ UNCHANGED <<matchVars, ocr, textVars, image, disk, invocations, storage>>

\* GET /api/files
List ==
    /\ requests.listed # [status |-> 200, ids |-> DOMAIN uploadedFiles.files]
    /\ requests' = [requests EXCEPT
                       !.listed = [status |-> 200, ids |-> DOMAIN uploadedFiles.files]]
    /\ UNCHANGED <<matchVars, ocr, textVars, image, disk, invocations, storage,
                   uploadedFiles>>

NextFiles ==
    \/ Upload
    \/ \E r \in ProcessIds : ProcessStart(r)
    \/ \E r \in ProcessIds : OcrReturns(r)
    \/ \E r \in ProcessIds : OcrThrows(r)
    \/ \E r \in ProcessIds : ProcessFinish(r)
    \/ Delete
    \/ List

SpecFiles == InitFiles /\ [][NextFiles]_vars
-----------------------------------------------------------------------------
(* Properties of the uploaded-file store *)

\* a step in which GET /api/files answers
Lists == requests'.listed # requests.listed

\* a step in which process request r reads the store
StartsProcess(r) == requests.of[r].pc = "new" /\ requests'.of[r].pc # "new"

\* C25: once DELETE /api/files/:fileId has answered success, the id is
\* absent from the store in every later state, GET /api/files does not list
\* it and a process request for it is answered 404, even when a process
\* request for the id was in flight at the time of the delete.
C25_DeletedStaysDeleted ==
    /\ [](\A fileId \in requests.deleted : ~Stored(fileId))
    /\ [][Lists => requests'.listed.ids \cap requests'.deleted = {}]_vars
    /\ [][\A r \in ProcessIds :
            StartsProcess(r) /\ requests'.of[r].fileId \in requests.deleted
                => requests'.of[r].response = Response(404, "File not found")]_vars

File(fileId) == uploadedFiles.files[fileId]

\* a step in which process request r is answered
Answers(r) == requests.of[r].response = NotCalled /\ requests'.of[r].response # NotCalled

\* a step in which process request r is answered 200 with the record it
\* stored for the file
Replaces(r, fileId) ==
    /\ Answers(r)
    /\ requests.of[r].fileId = fileId
    /\ requests'.of[r].response = [status |-> 200, body |-> uploadedFiles'.files[fileId]]

\* C26: every stored file has matchStatus pending exactly when its
\* extractedData is null; a process request that fails leaves the store as
\* it is; no step takes a processed file back to pending; and a stored
\* record changes only when a process request for it is answered 200 with
\* the new record.
C26_VerdictByReplacement ==
    /\ [](\A fileId \in DOMAIN uploadedFiles.files :
            (File(fileId).matchStatus = "pending") <=> (File(fileId).extractedData = Null))
    /\ [][\A r \in ProcessIds :
            Answers(r) /\ requests'.of[r].response.status # 200
                => uploadedFiles' = uploadedFiles]_vars
    /\ [][\A fileId \in DOMAIN uploadedFiles.files \cap DOMAIN uploadedFiles'.files :
            /\ File(fileId).matchStatus # "pending"
                  => uploadedFiles'.files[fileId].matchStatus # "pending"
            /\ uploadedFiles'.files[fileId] # File(fileId)
                  => \E r \in ProcessIds : Replaces(r, fileId)]_vars

\* a file processed to a full match by one request, a request for the same
\* file that failed, and a file still pending
C26_Witness ==
    \E fileId, other \in DOMAIN uploadedFiles.files, r, q \in ProcessIds :
        /\ File(fileId).matchStatus = "full_match"
        /\ File(fileId).extractedData # Null
        /\ File(other).matchStatus = "pending"
        /\ requests.of[r].fileId = fileId
        /\ requests.of[r].response = [status |-> 200, body |-> File(fileId)]
        /\ requests.of[q].fileId = fileId
        /\ requests.of[q].response = Response(500, "TypeError")
=============================================================================
